---------------------------- MODULE Spec2Model ----------------------------
(***************************************************************************)
(* A model of repo-ctr: the hierarchy builder, the detector registry, the  *)
(* ignore matcher, the directory walker, the LOC counter with its grand    *)
(* totals, the config merge and the self-update's downloadAndInstall.      *)
(*                                                                         *)
(* Strings are sequences of one-character strings, so that the byte-wise   *)
(* comparison, filepath.Dir, filepath.Base and the glob matching of the    *)
(* code are computed instead of assumed.                                   *)
(***************************************************************************)
EXTENDS Integers, Sequences, FiniteSets, TLC

VARIABLES
    \* ---- hierarchy builder (internal/discovery/hierarchy.go) ----
    hpc,        \* "input" | "built" | "flat": position in Build ; Flatten
    heap,       \* the *models.Project objects: id -> [Path, Children]
    projects,   \* the slice handed to Build
    roots,      \* the slice Build returned
    flat,       \* the slice Flatten returned
    rebuilt,    \* the objects and the roots after Build(Flatten(roots)): [heap, roots]
    \* ---- detector registry (internal/detector) ----
    dpc,          \* "input" | "done": Registry.DetectProject not yet / already called
    manifestPath, \* the manifest path handed to DetectProject
    content,      \* what the detectors can observe of the file's bytes
    tsconfig,     \* whether os.Stat(<dir>/tsconfig.json) succeeds
    detected,     \* what DetectProject returned: [project, err]
    \* ---- ignore matcher (internal/ignore) ----
    mpc,            \* "ready" once NewMatcher has returned
    rootDir,        \* Matcher.rootDir, an absolute path
    gitignoreRules, \* Matcher.gitignoreRules
    query,          \* the last ShouldIgnore / ShouldIgnoreFile call and its result
    \* ---- walker (internal/discovery) ----
    wpc,            \* "ready" once NewWalker has returned, "done" after Discover
    tree,           \* the files below the root: path -> [readable, content]
    access,         \* whether the root exists, and the directories os.ReadDir cannot read
    discovered,     \* what Discover returned: [projects, err]
    \* ---- LOC counter (internal/stats) ----
    cpc,            \* "ready" once NewCounter has returned, then which call was made
    cfs,            \* the files below the root: path -> lines
    cconfig,        \* Counter.config
    cproject,       \* the project handed to CountProject
    cstats,         \* the ProjectStats CountProject returned
    cforest,        \* the project list handed to CountHierarchy
    cresults,       \* the list of ProjectStats CountHierarchy returned
    ctotals,        \* the grand totals calculateTotals returned
    \* ---- config merge (internal/config) ----
    gpc,            \* "input" | "done": MergeProjects not yet / already called
    mdiscovered,    \* MergeProjects parameter discovered
    mexisting,      \* MergeProjects parameter existing
    mcfg,           \* MergeProjects parameter cfg
    mresult,        \* what MergeProjects returned
    \* ---- self-update (cmd/repo-ctr update) ----
    upc,            \* the statement downloadAndInstall is at, "returned" at its end
    uin,            \* the arguments of downloadAndInstall and runtime.GOOS
    utmpFile,       \* whether the variable tmpFile is not nil
    utmpOnDisk,     \* whether the repo-ctr-update-* file is next to the executable
    uexec,          \* what is at execPath: "old", "new" or "none"
    uerr            \* the error downloadAndInstall returned

hierVars == <<hpc, heap, projects, roots, flat, rebuilt>>
detVars == <<dpc, manifestPath, content, tsconfig, detected>>
ignVars == <<mpc, rootDir, gitignoreRules, query>>
walkVars == <<wpc, tree, access, discovered>>
countVars == <<cpc, cfs, cconfig, cproject, cstats, cforest, cresults, ctotals>>
mergeVars == <<gpc, mdiscovered, mexisting, mcfg, mresult>>
updVars == <<upc, uin, utmpFile, utmpOnDisk, uexec, uerr>>

vars == <<hpc, heap, projects, roots, flat, rebuilt,
          dpc, manifestPath, content, tsconfig, detected,
          mpc, rootDir, gitignoreRules, query,
          wpc, tree, access, discovered,
          cpc, cfs, cconfig, cproject, cstats, cforest, cresults, ctotals,
          gpc, mdiscovered, mexisting, mcfg, mresult,
          upc, uin, utmpFile, utmpOnDisk, uexec, uerr>>

-----------------------------------------------------------------------------
(* Bounds of the model.                                                    *)

\* longest project list handed to Build
MaxProjects == 4

\* most markers (tested substrings and patterns) one manifest content holds
MaxMarkers == 2

\* most lines of the root .gitignore
MaxRules == 2

\* most files in the directory tree that is walked
MaxFiles == 2

\* most source files in the directory tree that is counted
MaxSrcFiles == 6

\* longest project list handed to MergeProjects
MaxMerge == 2

-----------------------------------------------------------------------------
(* Strings.                                                                *)

\* The characters of the project paths handed to Build, in ascending byte
\* order (ASCII '-'=45 '.'=46 '/'=47 '_'=95 'a'=97 ... 'z'=122).  Go compares
\* strings byte by byte.
ByteOrder ==
    << "-", ".", "/", "_",
       "a", "b", "c", "d", "e", "f", "g", "h", "i", "j", "k", "l", "m",
       "n", "o", "p", "q", "r", "s", "t", "u", "v", "w", "x", "y", "z" >>

\* strings.HasPrefix
HasPrefix(s, pre) == Len(pre) <= Len(s) /\ SubSeq(s, 1, Len(pre)) = pre

\* strings.TrimPrefix
TrimPrefix(s, pre) ==
    IF HasPrefix(s, pre) THEN SubSeq(s, Len(pre) + 1, Len(s)) ELSE s

\* the first index at which sub occurs in s, 0 if it does not
IndexOfSub(s, sub) ==
    LET at == {i \in 1..(Len(s) - Len(sub) + 1) : SubSeq(s, i, i + Len(sub) - 1) = sub}
    IN  IF at = {} THEN 0 ELSE CHOOSE i \in at : \A j \in at : i <= j

\* strings.Contains for a non-empty sub
ContainsSub(s, sub) == IndexOfSub(s, sub) # 0

\* strings.Split for a non-empty sep
RECURSIVE Split(_, _)
Split(s, sep) ==
    LET i == IndexOfSub(s, sep) IN
    IF i = 0 THEN << s >>
    ELSE << SubSeq(s, 1, i - 1) >> \o Split(SubSeq(s, i + Len(sep), Len(s)), sep)

\* strings.TrimSpace, for the space character
RECURSIVE TrimSpace(_)
TrimSpace(s) ==
    IF s = << >> THEN s
    ELSE IF Head(s) = " " THEN TrimSpace(Tail(s))
    ELSE IF s[Len(s)] = " " THEN TrimSpace(SubSeq(s, 1, Len(s) - 1))
    ELSE s

\* filepath.Match for patterns made of literals, '*' and '?' (the character
\* classes and escapes of the pattern syntax are not used by the patterns
\* of this model): '*' and '?' do not match the separator
RECURSIVE GlobMatch(_, _)
GlobMatch(pattern, name) ==
    IF pattern = << >> THEN name = << >>
    ELSE IF Head(pattern) = "*" THEN
        \E k \in 0..Len(name) :
            /\ \A i \in 1..k : name[i] # "/"
            /\ GlobMatch(Tail(pattern), SubSeq(name, k + 1, Len(name)))
    ELSE IF Head(pattern) = "?" THEN
        /\ name # << >>
        /\ Head(name) # "/"
        /\ GlobMatch(Tail(pattern), Tail(name))
    ELSE
        /\ name # << >>
        /\ Head(name) = Head(pattern)
        /\ GlobMatch(Tail(pattern), Tail(name))

Rank(c) == CHOOSE i \in DOMAIN ByteOrder : ByteOrder[i] = c

\* s < t on Go strings
StrLess(s, t) ==
    \E k \in 1..Len(t) :
        /\ \A i \in 1..(k - 1) : i <= Len(s) /\ s[i] = t[i]
        /\ \/ k = Len(s) + 1
           \/ k <= Len(s) /\ Rank(s[k]) < Rank(t[k])

\* strings.Count(s, c) for a one-character c
Count(s, c) == Cardinality({i \in DOMAIN s : s[i] = c})

Sep == "/"
DotPath == << "." >>

LastSep(s) ==
    IF \E i \in DOMAIN s : s[i] = Sep
    THEN CHOOSE i \in DOMAIN s : s[i] = Sep /\ \A j \in (i + 1)..Len(s) : s[j] # Sep
    ELSE 0

\* filepath.Dir on a clean path
Dir(path) ==
    LET i == LastSep(path) IN
    IF i = 0 THEN DotPath
    ELSE IF i = 1 THEN << Sep >>
    ELSE SubSeq(path, 1, i - 1)

\* filepath.Base on a clean path
Base(path) ==
    IF path = << >> THEN DotPath
    ELSE IF path = << Sep >> THEN << Sep >>
    ELSE SubSeq(path, LastSep(path) + 1, Len(path))

-----------------------------------------------------------------------------
(* Go slices: a nil slice and an empty non-nil slice are different values. *)

NilSlice == [isNil |-> TRUE, elems |-> << >>]
MkSlice(s) == [isNil |-> FALSE, elems |-> s]
AppendSlice(sl, x) == [isNil |-> FALSE, elems |-> Append(sl.elems, x)]
LenSlice(sl) == Len(sl.elems)

\* the nil *models.Project
NilProject == 0

-----------------------------------------------------------------------------
(* Hierarchy builder.                                                      *)

\* the comparator of sort.Slice in Build, on project ids
DepthLess(h, p, q) ==
    LET depthI == Count(h[p].Path, Sep)
        depthJ == Count(h[q].Path, Sep)
    IN  IF depthI # depthJ THEN depthI < depthJ
        ELSE StrLess(h[p].Path, h[q].Path)

RECURSIVE InsertSorted(_, _, _)
InsertSorted(h, s, p) ==
    IF s = << >> THEN << p >>
    ELSE IF DepthLess(h, p, Head(s)) THEN << p >> \o s
    ELSE << Head(s) >> \o InsertSorted(h, Tail(s), p)

\* a Build that forgets to sort: the copy keeps the input order
SortProjectsKeepOrder(h, s) == s

\* sort.Slice(sorted, less) on a copy of the input
RECURSIVE SortProjects(_, _)
SortProjects(h, s) ==
    IF s = << >> THEN << >>
    ELSE InsertSorted(h, SortProjects(h, SubSeq(s, 1, Len(s) - 1)), s[Len(s)])

\* a walk that looks at the immediate parent directory only
AncestorWalkOneLevel(current, pathMap) ==
    IF current # DotPath /\ current # << Sep >> /\ current # << >>
       /\ current \in DOMAIN pathMap
    THEN pathMap[current]
    ELSE NilProject

\* the loop of findNearestAncestor, from `current` upwards
RECURSIVE AncestorWalk(_, _)
AncestorWalk(current, pathMap) ==
    IF current # DotPath /\ current # << Sep >> /\ current # << >>
    THEN IF current \in DOMAIN pathMap THEN pathMap[current]
         ELSE AncestorWalk(Dir(current), pathMap)
    ELSE NilProject

findNearestAncestor(path, pathMap) ==
    LET found == AncestorWalk(Dir(path), pathMap) IN
    IF found # NilProject THEN found
    ELSE IF path # DotPath /\ DotPath \in DOMAIN pathMap THEN pathMap[DotPath]
    ELSE NilProject

\* the loop of Build over the sorted list, from position i
RECURSIVE BuildLoop(_, _, _, _, _)
BuildLoop(h, sorted, i, pathMap, rs) ==
    IF i > Len(sorted) THEN [heap |-> h, roots |-> rs]
    ELSE
        LET project == sorted[i]
            path    == h[project].Path
            pm      == [p \in DOMAIN pathMap \cup {path} |->
                            IF p = path THEN project ELSE pathMap[p]]
            parent  == findNearestAncestor(path, pm)
        IN  IF parent # NilProject
            THEN BuildLoop([h EXCEPT ![parent].Children = Append(@, project)],
                           sorted, i + 1, pm, rs)
            ELSE BuildLoop(h, sorted, i + 1, pm, AppendSlice(rs, project))

\* a Build whose early return hands back an empty, non-nil slice
BuildEmptyNonNil(h, list) ==
    IF LenSlice(list) = 0 THEN [heap |-> h, roots |-> MkSlice(<< >>)]
    ELSE BuildLoop(h, SortProjects(h, list.elems), 1, << >>, NilSlice)

\* HierarchyBuilder.Build: the objects after the call and the roots returned
Build(h, list) ==
    IF LenSlice(list) = 0 THEN [heap |-> h, roots |-> NilSlice]
    ELSE BuildLoop(h, SortProjects(h, list.elems), 1, << >>, NilSlice)

\* the closure `flatten` of Flatten, on a list of ids
RECURSIVE FlattenList(_, _)
FlattenList(h, ps) ==
    IF ps = << >> THEN << >>
    ELSE LET p == Head(ps) IN
         << p >>
         \o (IF Len(h[p].Children) > 0 THEN FlattenList(h, h[p].Children) ELSE << >>)
         \o FlattenList(h, Tail(ps))

\* a Flatten that does not descend into Children
FlattenRootsOnly(h, rs) ==
    IF rs.elems = << >> THEN NilSlice ELSE MkSlice(rs.elems)

\* HierarchyBuilder.Flatten
Flatten(h, rs) ==
    LET result == FlattenList(h, rs.elems) IN
    IF result = << >> THEN NilSlice ELSE MkSlice(result)

-----------------------------------------------------------------------------
(* Inputs of the hierarchy builder: project lists with unique relative     *)
(* paths and empty Children.                                               *)

P_dot   == << "." >>
P_dash  == << "-" >>
P_a     == << "a" >>
P_b     == << "b" >>
P_ab    == << "a", "/", "b" >>
P_abc   == << "a", "/", "b", "/", "c" >>
P_ba    == << "b", "/", "a" >>
P_adb   == << "a", "-", "/", "b" >>

PathSet == { P_dot, P_dash, P_a, P_b, P_ab, P_abc, P_ba, P_adb }

NotRebuilt == [heap |-> << >>, roots |-> NilSlice]

PathLists ==
    UNION { { s \in [1..n -> PathSet] : \A i, j \in 1..n : i # j => s[i] # s[j] }
            : n \in 0..MaxProjects }

HierInit ==
    /\ hpc = "input"
    /\ \E ps \in PathLists :
        /\ heap = [i \in 1..Len(ps) |-> [Path |-> ps[i], Children |-> << >>]]
        /\ projects \in (IF ps = << >> THEN {NilSlice} ELSE {})
                         \cup {MkSlice([i \in 1..Len(ps) |-> i])}
    /\ roots = NilSlice
    /\ flat = NilSlice
    /\ rebuilt = NotRebuilt

DoBuild ==
    /\ hpc = "input"
    /\ LET r == Build(heap, projects) IN
        /\ heap' = r.heap
        /\ roots' = r.roots
    /\ hpc' = "built"
    /\ UNCHANGED <<projects, flat, rebuilt>>
    /\ UNCHANGED <<detVars, ignVars, walkVars, countVars, mergeVars, updVars>>

DoFlatten ==
    /\ hpc = "built"
    /\ flat' = Flatten(heap, roots)
    /\ hpc' = "flat"
    /\ UNCHANGED <<heap, projects, roots, rebuilt>>
    /\ UNCHANGED <<detVars, ignVars, walkVars, countVars, mergeVars, updVars>>

\* Build called on the list Flatten returned: the same objects, with the
\* Children the first Build gave them
DoRebuild ==
    /\ hpc = "flat"
    /\ rebuilt' = Build(heap, flat)
    /\ hpc' = "rebuilt"
    /\ UNCHANGED <<heap, projects, roots, flat>>
    /\ UNCHANGED <<detVars, ignVars, walkVars, countVars, mergeVars, updVars>>

HierNext == DoBuild \/ DoFlatten \/ DoRebuild

-----------------------------------------------------------------------------
(* Detectors.                                                              *)
(*                                                                         *)
(* A manifest's bytes are seen by the detectors only through substring and *)
(* pattern tests and through a structured decoder (encoding/json,          *)
(* encoding/xml, toml, yaml).  A content is therefore the set of tested    *)
(* markers it holds, whether the decoder the file name selects accepts it, *)
(* and the name, version and typescript dependency the extraction yields.  *)

EmptyStr == << >>

\* filepath.Ext: from the last dot of the last path element
Ext(path) ==
    LET b == Base(path) IN
    IF \E i \in DOMAIN b : b[i] = "."
    THEN LET i == CHOOSE k \in DOMAIN b :
                      b[k] = "." /\ \A j \in (k + 1)..Len(b) : b[j] # "."
         IN  SubSeq(b, i, Len(b))
    ELSE EmptyStr

ToLowerChar(c) ==
    CASE c = "C" -> "c" [] c = "J" -> "j" [] c = "L" -> "l" [] c = "M" -> "m"
      [] c = "N" -> "n" [] c = "O" -> "o" [] c = "P" -> "p" [] c = "R" -> "r"
      [] c = "S" -> "s" [] OTHER -> c

\* strings.ToLower
ToLower(s) == [i \in DOMAIN s |-> ToLowerChar(s[i])]

\* strings.HasSuffix
HasSuffix(s, suf) ==
    Len(suf) <= Len(s) /\ SubSeq(s, Len(s) - Len(suf) + 1, Len(s)) = suf

\* strings.TrimSuffix
TrimSuffix(s, suf) ==
    IF HasSuffix(s, suf) THEN SubSeq(s, 1, Len(s) - Len(suf)) ELSE s

\* manifest file names
F_gomod        == << "g","o",".","m","o","d" >>
F_pyproject    == << "p","y","p","r","o","j","e","c","t",".","t","o","m","l" >>
F_setuppy      == << "s","e","t","u","p",".","p","y" >>
F_requirements == << "r","e","q","u","i","r","e","m","e","n","t","s",".","t","x","t" >>
F_pomxml       == << "p","o","m",".","x","m","l" >>
F_gradle       == << "b","u","i","l","d",".","g","r","a","d","l","e" >>
F_gradlekts    == << "b","u","i","l","d",".","g","r","a","d","l","e",".","k","t","s" >>
F_packagejson  == << "p","a","c","k","a","g","e",".","j","s","o","n" >>
F_pubspec      == << "p","u","b","s","p","e","c",".","y","a","m","l" >>
F_cmakelists   == << "C","M","a","k","e","L","i","s","t","s",".","t","x","t" >>
F_makefile     == << "M","a","k","e","f","i","l","e" >>
F_meson        == << "m","e","s","o","n",".","b","u","i","l","d" >>
F_cargo        == << "C","a","r","g","o",".","t","o","m","l" >>
\* file names matched by the glob patterns *.csproj, *.fsproj, *.vbproj,
\* *.sln and *.vcxproj, and one with an upper-case extension
F_csproj       == << "x",".","c","s","p","r","o","j" >>
F_fsproj       == << "x",".","f","s","p","r","o","j" >>
F_vbproj       == << "x",".","v","b","p","r","o","j" >>
F_sln          == << "x",".","s","l","n" >>
F_slnUpper     == << "x",".","S","L","N" >>
F_csprojUpper  == << "x",".","C","S","P","R","O","J" >>
F_vcxproj      == << "x",".","v","c","x","p","r","o","j" >>
\* a file no detector knows
F_readme       == << "r","e","a","d","m","e" >>

E_csproj  == << ".","c","s","p","r","o","j" >>
E_fsproj  == << ".","f","s","p","r","o","j" >>
E_vbproj  == << ".","v","b","p","r","o","j" >>
E_sln     == << ".","s","l","n" >>
E_vcxproj == << ".","v","c","x","p","r","o","j" >>

FileNames ==
    { F_gomod, F_pyproject, F_setuppy, F_requirements, F_pomxml, F_gradle,
      F_gradlekts, F_packagejson, F_pubspec, F_cmakelists, F_makefile, F_meson,
      F_cargo, F_csproj, F_fsproj, F_vbproj, F_sln, F_slnUpper, F_csprojUpper,
      F_vcxproj, F_readme }

\* the substrings (strings.Contains) and patterns (regexp MatchString) whose
\* presence in the content decides whether a detector claims the file
Markers ==
    { "Microsoft Visual Studio", ".csproj", ".fsproj", ".vbproj", ".vcxproj",
      "<Project", "module ", "setup(", "setup (", "<project",
      "plugins", "apply plugin", "dependencies",
      "cmake_minimum_required", "project(",
      "$(CC)", "$(CXX)", "compilerRe", "-std=c", "cBuildVarsRe",
      "<ClCompile", "Microsoft.Cpp" }

Contains(c, marker) == marker \in c.markers

\* runtime types (pkg/models/project.go)
RuntimeDotNet     == ".NET"
RuntimePython     == "Python"
RuntimeGo         == "Go"
RuntimeJava       == "Java"
RuntimeTypeScript == "TypeScript"
RuntimeJavaScript == "JavaScript"
RuntimeDart       == "Dart"
RuntimeCpp        == "C/C++"
RuntimeRust       == "Rust"

\* &models.Project{...}; SourcePaths and SrcIgnorePaths are constants of
\* the runtime type and are read by no operation modelled here
MkProject(name, path, type, version, manifestFile) ==
    [Name |-> name, Path |-> path, Type |-> type, Version |-> version,
     ManifestFile |-> manifestFile]

\* what Detect returns: a project pointer (the empty set is nil) and an error
NotApplicable == [project |-> {}, err |-> "nil"]
Detected(p) == [project |-> {p}, err |-> "nil"]
Failed(e) == [project |-> {}, err |-> e]

\* the createProject of the detectors that fall back to the directory name
createProject(manifestPath_, name, type, version, manifestFile) ==
    LET dir == Dir(manifestPath_) IN
    MkProject(IF name = EmptyStr THEN Base(dir) ELSE name,
              dir, type, version, manifestFile)

\* dotNetDetector.createProject
dotNetCreateProject(manifestPath_, version) ==
    LET dir == Dir(manifestPath_)
        ext == ToLower(Ext(manifestPath_))
        name == IF ext \in {E_csproj, E_fsproj, E_vbproj}
                THEN TrimSuffix(Base(manifestPath_), ext)
                ELSE Base(dir)
    IN  MkProject(name, dir, RuntimeDotNet, version, Base(manifestPath_))

\* a detectProjectFile that reports the decoder's error to its caller
detectProjectFileHardFail(manifestPath_, c) ==
    IF ~Contains(c, "<Project") THEN NotApplicable
    ELSE IF ~c.parsed THEN Failed("xml: syntax error")
    ELSE Detected(dotNetCreateProject(manifestPath_, c.version))

\* dotNetDetector.detectProjectFile
detectProjectFile(manifestPath_, c) ==
    IF ~Contains(c, "<Project") THEN NotApplicable
    ELSE IF ~c.parsed THEN Detected(dotNetCreateProject(manifestPath_, EmptyStr))
    ELSE Detected(dotNetCreateProject(manifestPath_, c.version))

\* a detectSolutionFile that claims every Visual Studio solution
detectSolutionFileAnySln(manifestPath_, c) ==
    IF ~Contains(c, "Microsoft Visual Studio") THEN NotApplicable
    ELSE Detected(dotNetCreateProject(manifestPath_, EmptyStr))

\* dotNetDetector.detectSolutionFile
detectSolutionFile(manifestPath_, c) ==
    IF ~Contains(c, "Microsoft Visual Studio") THEN NotApplicable
    ELSE LET hasDotNetProject == \/ Contains(c, ".csproj")
                                 \/ Contains(c, ".fsproj")
                                 \/ Contains(c, ".vbproj")
         IN  IF ~hasDotNetProject THEN NotApplicable
             ELSE Detected(dotNetCreateProject(manifestPath_, EmptyStr))

\* dotNetDetector.Detect
DetectDotNet(manifestPath_, c) ==
    LET ext == ToLower(Ext(manifestPath_)) IN
    IF ext \in {E_csproj, E_fsproj, E_vbproj} THEN detectProjectFile(manifestPath_, c)
    ELSE IF ext = E_sln THEN detectSolutionFile(manifestPath_, c)
    ELSE NotApplicable

\* pythonDetector.Detect
DetectPython(manifestPath_, c) ==
    LET filename == Base(manifestPath_) IN
    IF filename = F_pyproject THEN
        IF ~c.parsed
        THEN Detected(createProject(manifestPath_, EmptyStr, RuntimePython, EmptyStr, filename))
        ELSE Detected(createProject(manifestPath_, c.name, RuntimePython, c.version, filename))
    ELSE IF filename = F_setuppy THEN
        IF ~Contains(c, "setup(") /\ ~Contains(c, "setup (") THEN NotApplicable
        ELSE Detected(createProject(manifestPath_, c.name, RuntimePython, c.version, filename))
    ELSE IF filename = F_requirements THEN
        Detected(createProject(manifestPath_, EmptyStr, RuntimePython, EmptyStr, filename))
    ELSE NotApplicable

\* goDetector.Detect
DetectGo(manifestPath_, c) ==
    IF Base(manifestPath_) # F_gomod THEN NotApplicable
    ELSE IF ~Contains(c, "module ") THEN NotApplicable
    ELSE Detected(createProject(manifestPath_, c.name, RuntimeGo, c.version, F_gomod))

\* javaDetector.Detect
DetectJava(manifestPath_, c) ==
    LET filename == Base(manifestPath_) IN
    IF filename = F_pomxml THEN
        IF ~Contains(c, "<project") THEN NotApplicable
        ELSE IF ~c.parsed
        THEN Detected(createProject(manifestPath_, EmptyStr, RuntimeJava, EmptyStr, filename))
        ELSE Detected(createProject(manifestPath_, c.name, RuntimeJava, c.version, filename))
    ELSE IF filename \in {F_gradle, F_gradlekts} THEN
        IF ~Contains(c, "plugins") /\ ~Contains(c, "apply plugin")
           /\ ~Contains(c, "dependencies")
        THEN NotApplicable
        ELSE Detected(createProject(manifestPath_, EmptyStr, RuntimeJava, c.version, filename))
    ELSE NotApplicable

\* javascriptDetector.isTypeScriptProject
isTypeScriptProject(tsconfigExists, c) ==
    IF tsconfigExists THEN TRUE
    ELSE c.tsDep

\* javascriptDetector.createProject
jsCreateProject(manifestPath_, name, version, isTypeScript) ==
    createProject(manifestPath_, name,
                  IF isTypeScript THEN RuntimeTypeScript ELSE RuntimeJavaScript,
                  version, F_packagejson)

\* javascriptDetector.Detect
DetectJavaScript(manifestPath_, c, tsconfigExists) ==
    IF Base(manifestPath_) # F_packagejson THEN NotApplicable
    ELSE IF ~c.parsed
    THEN Detected(jsCreateProject(manifestPath_, EmptyStr, EmptyStr, FALSE))
    ELSE Detected(jsCreateProject(manifestPath_, c.name, c.version,
                                  isTypeScriptProject(tsconfigExists, c)))

\* dartDetector.Detect
DetectDart(manifestPath_, c) ==
    IF Base(manifestPath_) # F_pubspec THEN NotApplicable
    ELSE IF ~c.parsed
    THEN Detected(createProject(manifestPath_, EmptyStr, RuntimeDart, EmptyStr, F_pubspec))
    ELSE Detected(createProject(manifestPath_, c.name, RuntimeDart, c.version, F_pubspec))

\* cppDetector.detectMakefile: the four indicators of a C/C++ Makefile
isCppMakefile(c) ==
    \/ Contains(c, "$(CC)") \/ Contains(c, "$(CXX)")
    \/ Contains(c, "compilerRe")
    \/ Contains(c, "-std=c")
    \/ Contains(c, "cBuildVarsRe")

\* a cppDetector.Detect that also takes a Visual Studio solution for a
\* C/C++ project
DetectCppClaimsSln(manifestPath_, c) ==
    LET filename == Base(manifestPath_)
        ext == ToLower(Ext(manifestPath_))
    IN  IF filename = F_cmakelists THEN
            IF ~Contains(c, "cmake_minimum_required") /\ ~Contains(c, "project(")
            THEN NotApplicable
            ELSE Detected(createProject(manifestPath_, c.name, RuntimeCpp, c.version, filename))
        ELSE IF filename = F_makefile THEN
            IF ~isCppMakefile(c) THEN NotApplicable
            ELSE Detected(createProject(manifestPath_, EmptyStr, RuntimeCpp, c.version, filename))
        ELSE IF filename = F_meson THEN
            IF ~Contains(c, "project(") THEN NotApplicable
            ELSE Detected(createProject(manifestPath_, c.name, RuntimeCpp, EmptyStr, filename))
        ELSE IF ext = E_sln THEN
            IF ~Contains(c, "Microsoft Visual Studio") THEN NotApplicable
            ELSE Detected(createProject(manifestPath_, c.name, RuntimeCpp, EmptyStr, filename))
        ELSE IF ext = E_vcxproj THEN
            IF ~Contains(c, "<ClCompile") /\ ~Contains(c, "Microsoft.Cpp")
            THEN NotApplicable
            ELSE Detected(createProject(manifestPath_, c.name, RuntimeCpp, EmptyStr, filename))
        ELSE NotApplicable

\* cppDetector.Detect
DetectCpp(manifestPath_, c) ==
    LET filename == Base(manifestPath_)
        ext == ToLower(Ext(manifestPath_))
    IN  IF filename = F_cmakelists THEN
            IF ~Contains(c, "cmake_minimum_required") /\ ~Contains(c, "project(")
            THEN NotApplicable
            ELSE Detected(createProject(manifestPath_, c.name, RuntimeCpp, c.version, filename))
        ELSE IF filename = F_makefile THEN
            IF ~isCppMakefile(c) THEN NotApplicable
            ELSE Detected(createProject(manifestPath_, EmptyStr, RuntimeCpp, c.version, filename))
        ELSE IF filename = F_meson THEN
            IF ~Contains(c, "project(") THEN NotApplicable
            ELSE Detected(createProject(manifestPath_, c.name, RuntimeCpp, EmptyStr, filename))
        ELSE IF ext = E_vcxproj THEN
            IF ~Contains(c, "<ClCompile") /\ ~Contains(c, "Microsoft.Cpp")
            THEN NotApplicable
            ELSE Detected(createProject(manifestPath_, c.name, RuntimeCpp, EmptyStr, filename))
        ELSE NotApplicable

\* rustDetector.Detect
DetectRust(manifestPath_, c) ==
    IF Base(manifestPath_) # F_cargo THEN NotApplicable
    ELSE IF ~c.parsed
    THEN Detected(createProject(manifestPath_, EmptyStr, RuntimeRust, EmptyStr, F_cargo))
    ELSE Detected(createProject(manifestPath_, c.name, RuntimeRust, c.version, F_cargo))

\* NewRegistry: the detectors in registration order
Detectors ==
    << "DotNet", "Python", "Go", "Java", "JavaScript", "Dart", "C/C++", "Rust" >>

\* d.Detect(manifestPath, content) for the detector named d
Detect(d, manifestPath_, c, tsconfigExists) ==
    CASE d = "DotNet"     -> DetectDotNet(manifestPath_, c)
      [] d = "Python"     -> DetectPython(manifestPath_, c)
      [] d = "Go"         -> DetectGo(manifestPath_, c)
      [] d = "Java"       -> DetectJava(manifestPath_, c)
      [] d = "JavaScript" -> DetectJavaScript(manifestPath_, c, tsconfigExists)
      [] d = "Dart"       -> DetectDart(manifestPath_, c)
      [] d = "C/C++"      -> DetectCpp(manifestPath_, c)
      [] d = "Rust"       -> DetectRust(manifestPath_, c)

\* the loop of Registry.DetectProject, from detector i
RECURSIVE DetectLoop(_, _, _, _, _)
DetectLoop(ds, i, manifestPath_, c, tsconfigExists) ==
    IF i > Len(ds) THEN NotApplicable
    ELSE LET r == Detect(ds[i], manifestPath_, c, tsconfigExists) IN
         IF r.err # "nil" THEN Failed(r.err)
         ELSE IF r.project # {} THEN r
         ELSE DetectLoop(ds, i + 1, manifestPath_, c, tsconfigExists)

\* Registry.DetectProject
DetectProject(manifestPath_, c, tsconfigExists) ==
    DetectLoop(Detectors, 1, manifestPath_, c, tsconfigExists)

-----------------------------------------------------------------------------
(* Inputs of the registry: every file name in a directory d, with every    *)
(* content of at most MaxMarkers markers.                                  *)

N_some == << "n" >>
V_some == << "v" >>
D_dir  == << "d" >>

Join(dir, name) == dir \o << Sep >> \o name

MarkerSets == {m \in SUBSET Markers : Cardinality(m) <= MaxMarkers}

\* a content that does not decode yields no dependency table
Contents ==
    { c \in [markers : MarkerSets, parsed : BOOLEAN, name : {EmptyStr, N_some},
             version : {EmptyStr, V_some}, tsDep : BOOLEAN] :
        c.tsDep => c.parsed }

IdleContent ==
    [markers |-> {}, parsed |-> FALSE, name |-> EmptyStr, version |-> EmptyStr,
     tsDep |-> FALSE]

HierIdle ==
    /\ hpc = "idle"
    /\ heap = << >>
    /\ projects = NilSlice
    /\ roots = NilSlice
    /\ flat = NilSlice
    /\ rebuilt = NotRebuilt

DetIdle ==
    /\ dpc = "idle"
    /\ manifestPath = EmptyStr
    /\ content = IdleContent
    /\ tsconfig = FALSE
    /\ detected = NotApplicable

DetInit ==
    /\ dpc = "input"
    /\ manifestPath \in {Join(D_dir, f) : f \in FileNames}
    /\ content \in Contents
    /\ tsconfig \in BOOLEAN
    /\ detected = NotApplicable

\* the same calls with one extracted name and no version: neither reaches
\* the tests by which a detector takes or leaves a file
DetOrderInit ==
    /\ dpc = "input"
    /\ manifestPath \in {Join(D_dir, f) : f \in FileNames}
    /\ content \in {c \in Contents : c.name = N_some /\ c.version = EmptyStr}
    /\ tsconfig \in BOOLEAN
    /\ detected = NotApplicable

DoDetectProject ==
    /\ dpc = "input"
    /\ detected' = DetectProject(manifestPath, content, tsconfig)
    /\ dpc' = "done"
    /\ UNCHANGED <<manifestPath, content, tsconfig>>
    /\ UNCHANGED <<hierVars, ignVars, walkVars, countVars, mergeVars, updVars>>

DetNext == DoDetectProject

-----------------------------------------------------------------------------
(* Ignore matcher.                                                         *)

\* DefaultIgnorePatterns, as the keys of Matcher.defaultIgnores
DefaultIgnorePatterns ==
    { << ".","g","i","t" >>,
      << ".","s","v","n" >>,
      << ".","h","g" >>,
      << "n","o","d","e","_","m","o","d","u","l","e","s" >>,
      << "v","e","n","d","o","r" >>,
      << "_","_","p","y","c","a","c","h","e","_","_" >>,
      << ".","t","o","x" >>,
      << ".","n","o","x" >>,
      << ".","e","g","g","s" >>,
      << "*",".","e","g","g","-","i","n","f","o" >>,
      << "_","_","p","y","p","a","c","k","a","g","e","s","_","_" >>,
      << "v","e","n","v" >>,
      << ".","v","e","n","v" >>,
      << "e","n","v" >>,
      << ".","e","n","v" >>,
      << "E","N","V" >>,
      << "v","i","r","t","u","a","l","e","n","v" >>,
      << ".","v","i","r","t","u","a","l","e","n","v" >>,
      << "p","y","t","h","o","n","e","n","v" >>,
      << ".","p","y","t","h","o","n","e","n","v" >>,
      << ".","c","o","n","d","a" >>,
      << "t","a","r","g","e","t" >>,
      << "b","u","i","l","d" >>,
      << "d","i","s","t" >>,
      << ".","g","r","a","d","l","e" >>,
      << ".","i","d","e","a" >>,
      << ".","v","s","c","o","d","e" >>,
      << ".","v","s" >>,
      << "b","i","n" >>,
      << "o","b","j" >>,
      << ".","D","S","_","S","t","o","r","e" >>,
      << "T","h","u","m","b","s",".","d","b" >> }

\* DefaultIgnoreExtensions
DefaultIgnoreExtensions ==
    { << ".","p","y","c" >>,
      << ".","p","y","o" >>,
      << ".","c","l","a","s","s" >>,
      << ".","o" >>,
      << ".","a" >>,
      << ".","s","o" >>,
      << ".","d","y","l","i","b" >> }

\* the body of the loop of parseGitignore for one trimmed, kept line
parseRule(line) ==
    LET negate   == HasPrefix(line, << "!" >>)
        line1    == IF negate THEN Tail(line) ELSE line
        dirOnly  == HasSuffix(line1, << "/" >>)
        line2    == IF dirOnly THEN TrimSuffix(line1, << "/" >>) ELSE line1
        anchored == ContainsSub(line2, << "/" >>)
    IN  [pattern |-> line2, negate |-> negate, dirOnly |-> dirOnly,
         anchored |-> anchored]

\* parseGitignore on the lines of the file
RECURSIVE parseGitignore(_)
parseGitignore(lines) ==
    IF lines = << >> THEN << >>
    ELSE LET line == TrimSpace(Head(lines)) IN
         IF line = << >> \/ HasPrefix(line, << "#" >>)
         THEN parseGitignore(Tail(lines))
         ELSE << parseRule(line) >> \o parseGitignore(Tail(lines))

\* matchPattern
matchPattern(pattern, path) ==
    LET parts == Split(pattern, << "*", "*" >>) IN
    IF ContainsSub(pattern, << "*", "*" >>) /\ Len(parts) = 2
    THEN LET prefix == TrimSuffix(parts[1], << "/" >>)
             suffix == TrimPrefix(parts[2], << "/" >>)
         IN  IF prefix = << >> /\ suffix = << >> THEN TRUE
             ELSE IF prefix # << >> /\ ~HasPrefix(path, prefix) THEN FALSE
             ELSE IF suffix # << >> /\ ~HasSuffix(path, suffix) THEN FALSE
             ELSE TRUE
    ELSE \/ pattern = path
         \/ GlobMatch(pattern, path)
         \/ GlobMatch(pattern, Base(path))
         \/ HasPrefix(path, pattern \o << "/" >>)

\* whether one rule matches, as in the loop of matchGitignore
ruleMatches(rule, relPath) ==
    IF rule.anchored THEN matchPattern(rule.pattern, relPath)
    ELSE matchPattern(rule.pattern, relPath) \/ matchPattern(rule.pattern, Base(relPath))

\* a matchGitignore loop that stops at the first rule that matches
RECURSIVE matchLoopFirstWins(_, _, _, _, _)
matchLoopFirstWins(rules, i, relPath, isDir, ignored) ==
    IF i > Len(rules) THEN ignored
    ELSE LET rule == rules[i] IN
         IF rule.dirOnly /\ ~isDir
         THEN matchLoopFirstWins(rules, i + 1, relPath, isDir, ignored)
         ELSE IF ruleMatches(rule, relPath) THEN ~rule.negate
         ELSE matchLoopFirstWins(rules, i + 1, relPath, isDir, ignored)

\* the loop of matchGitignore from rule i, with the state `ignored`
RECURSIVE matchLoop(_, _, _, _, _)
matchLoop(rules, i, relPath, isDir, ignored) ==
    IF i > Len(rules) THEN ignored
    ELSE LET rule == rules[i] IN
         IF rule.dirOnly /\ ~isDir THEN matchLoop(rules, i + 1, relPath, isDir, ignored)
         ELSE IF ruleMatches(rule, relPath)
         THEN matchLoop(rules, i + 1, relPath, isDir, ~rule.negate)
         ELSE matchLoop(rules, i + 1, relPath, isDir, ignored)

\* Matcher.matchGitignore
matchGitignore(rules, relPath, isDir) == matchLoop(rules, 1, relPath, isDir, FALSE)

\* filepath.Rel(root, path) for a path at or below root; the code keeps the
\* path itself when Rel fails
Rel(root, path) ==
    IF path = root THEN DotPath
    ELSE IF HasPrefix(path, root \o << Sep >>) THEN SubSeq(path, Len(root) + 2, Len(path))
    ELSE path

\* a ShouldIgnore in which the gitignore rules are consulted before the
\* built-in names, so that a negation rule can re-include one
ShouldIgnoreRulesFirst(root, rules, path, stat) ==
    LET relPath == Rel(root, path)
        isDir   == stat = "dir"
        matched == \E i \in DOMAIN rules :
                       (~rules[i].dirOnly \/ isDir) /\ ruleMatches(rules[i], relPath)
    IN  IF matched THEN matchGitignore(rules, relPath, isDir)
        ELSE \/ Base(path) \in DefaultIgnorePatterns
             \/ ~isDir /\ ToLower(Ext(path)) \in DefaultIgnoreExtensions

\* Matcher.ShouldIgnore; stat is what os.Stat(path) finds: "dir", "file" or
\* "missing" (an error)
ShouldIgnore(root, rules, path, stat) ==
    LET relPath == Rel(root, path)
        isDir   == stat = "dir"
    IN  IF Base(path) \in DefaultIgnorePatterns THEN TRUE
        ELSE IF ~isDir /\ ToLower(Ext(path)) \in DefaultIgnoreExtensions THEN TRUE
        ELSE matchGitignore(rules, relPath, isDir)

\* a ShouldIgnoreFile that lets directory-only rules apply
ShouldIgnoreFileAsDir(root, rules, path) ==
    LET relPath == Rel(root, path) IN
    IF Base(path) \in DefaultIgnorePatterns THEN TRUE
    ELSE IF ToLower(Ext(path)) \in DefaultIgnoreExtensions THEN TRUE
    ELSE matchGitignore(rules, relPath, TRUE)

\* Matcher.ShouldIgnoreFile
ShouldIgnoreFile(root, rules, path) ==
    LET relPath == Rel(root, path) IN
    IF Base(path) \in DefaultIgnorePatterns THEN TRUE
    ELSE IF ToLower(Ext(path)) \in DefaultIgnoreExtensions THEN TRUE
    ELSE matchGitignore(rules, relPath, FALSE)

-----------------------------------------------------------------------------
(* Inputs of the matcher: a root directory whose .gitignore is absent or   *)
(* holds at most MaxRules of these lines, and calls on paths below it.     *)

R_root == << "/","r" >>

GitignoreLines ==
    { << "!","n","o","d","e","_","m","o","d","u","l","e","s" >>,
      << "*" >>,
      << "g","e","n","/" >>,
      << "!","g","e","n" >>,
      << "s","r","c","/","g","e","n" >>,
      << "*",".","l","o","g" >>,
      << "#","x" >>,
      << "*","*","/","g","e","n" >> }

GitignoreFiles == UNION { [1..n -> GitignoreLines] : n \in 0..MaxRules }

QueryPaths ==
    { << "n","o","d","e","_","m","o","d","u","l","e","s" >>,
      << "s","r","c","/","n","o","d","e","_","m","o","d","u","l","e","s" >>,
      << "g","e","n" >>,
      << "s","r","c","/","g","e","n" >>,
      << "s","r","c","/","g","e","n","/","x",".","l","o","g" >>,
      << "x",".","l","o","g" >>,
      << "s","r","c" >>,
      << "s","r","c","/","a",".","p","y","c" >>,
      << "x",".","g","o" >> }

StatResults == {"dir", "file", "missing"}

NoQuery == [op |-> "none", path |-> EmptyStr, stat |-> "missing", result |-> FALSE]

IgnIdle ==
    /\ mpc = "idle"
    /\ rootDir = EmptyStr
    /\ gitignoreRules = << >>
    /\ query = NoQuery

\* NewMatcher: a missing or unreadable .gitignore leaves the rules empty
IgnInit ==
    /\ mpc = "ready"
    /\ rootDir = R_root
    /\ \E file \in GitignoreFiles : gitignoreRules = parseGitignore(file)
    /\ query = NoQuery

DoShouldIgnore ==
    /\ mpc = "ready"
    /\ \E rel \in QueryPaths, stat \in StatResults :
        LET path == Join(rootDir, rel) IN
        query' = [op |-> "ShouldIgnore", path |-> path, stat |-> stat,
                  result |-> ShouldIgnore(rootDir, gitignoreRules, path, stat)]
    /\ UNCHANGED <<mpc, rootDir, gitignoreRules>>
    /\ UNCHANGED <<hierVars, detVars, walkVars, countVars, mergeVars, updVars>>

DoShouldIgnoreFile ==
    /\ mpc = "ready"
    /\ \E rel \in QueryPaths, stat \in StatResults :
        LET path == Join(rootDir, rel) IN
        query' = [op |-> "ShouldIgnoreFile", path |-> path, stat |-> stat,
                  result |-> ShouldIgnoreFile(rootDir, gitignoreRules, path)]
    /\ UNCHANGED <<mpc, rootDir, gitignoreRules>>
    /\ UNCHANGED <<hierVars, detVars, walkVars, countVars, mergeVars, updVars>>

IgnNext == DoShouldIgnore \/ DoShouldIgnoreFile

-----------------------------------------------------------------------------
(* Walker.                                                                 *)

\* ManifestFiles() of the detector named d
ManifestFiles(d) ==
    CASE d = "DotNet"     -> << << "*",".","c","s","p","r","o","j" >>, << "*",".","s","l","n" >>, << "*",".","f","s","p","r","o","j" >>, << "*",".","v","b","p","r","o","j" >> >>
      [] d = "Python"     -> << F_pyproject, F_setuppy, F_requirements >>
      [] d = "Go"         -> << F_gomod >>
      [] d = "Java"       -> << F_pomxml, F_gradle, F_gradlekts >>
      [] d = "JavaScript" -> << F_packagejson >>
      [] d = "Dart"       -> << F_pubspec >>
      [] d = "C/C++"      -> << F_cmakelists, F_makefile, F_meson, << "*",".","v","c","x","p","r","o","j" >> >>
      [] d = "Rust"       -> << F_cargo >>

\* the loop of Registry.GetManifestPatterns, from detector i
RECURSIVE ManifestPatternsFrom(_)
ManifestPatternsFrom(i) ==
    IF i > Len(Detectors) THEN << >>
    ELSE ManifestFiles(Detectors[i]) \o ManifestPatternsFrom(i + 1)

\* Registry.GetManifestPatterns
GetManifestPatterns == ManifestPatternsFrom(1)

\* Walker.matchesManifest
matchesManifest(filename, patterns) ==
    \E i \in DOMAIN patterns :
        \/ patterns[i] = filename
        \/ ContainsSub(patterns[i], << "*" >>) /\ GlobMatch(patterns[i], filename)

F_tsconfig == << "t","s","c","o","n","f","i","g",".","j","s","o","n" >>

\* the directories below the root, which every walked tree has
WalkDirNames ==
    { << "a" >>,
      << "a","/","b" >>,
      << "n","o","d","e","_","m","o","d","u","l","e","s" >> }

WalkDirs(root) == {root} \cup {Join(root, d) : d \in WalkDirNames}

\* the names os.ReadDir returns for a directory, in its order: sorted by
\* file name
RECURSIVE SortNames(_)
SortNames(names) ==
    IF names = {} THEN << >>
    ELSE LET least == CHOOSE n \in names : \A o \in names \ {n} : StrLess(n, o)
         IN  << least >> \o SortNames(names \ {least})

ReadDir(root, tree_, dir) ==
    SortNames({Base(p) : p \in {q \in WalkDirs(root) \cup DOMAIN tree_ : Dir(q) = dir}})

\* the callback of Discover on a file entry, with the projects so far
visitFile(root, rules, tree_, path, acc) ==
    IF ~matchesManifest(Base(path), GetManifestPatterns) THEN acc
    ELSE IF ShouldIgnoreFile(root, rules, path) THEN acc
    ELSE IF ~tree_[path].readable THEN acc
    ELSE LET r == DetectProject(path, tree_[path].content,
                                Join(Dir(path), F_tsconfig) \in DOMAIN tree_)
         IN  IF r.err # "nil" THEN acc
             ELSE IF r.project = {} THEN acc
             ELSE LET project == CHOOSE q \in r.project : TRUE
                  IN  AppendSlice(acc, [project EXCEPT !.Path = Rel(root, project.Path)])

\* filepath.WalkDir with the callback of Discover: a directory for which
\* the callback returns SkipDir is not read; a directory that os.ReadDir
\* cannot read (one of `denied`) is reported to the callback, which returns
\* nil, and has no entries; the entries of the others are visited in
\* ReadDir order, depth first
RECURSIVE walkDir(_, _, _, _, _, _)
RECURSIVE walkEntries(_, _, _, _, _, _, _)

\* a walk whose callback never returns SkipDir
walkDirNoPrune(root, rules, tree_, denied, path, acc) ==
    IF path \in WalkDirs(root)
    THEN IF path \in denied THEN acc
         ELSE walkEntries(root, rules, tree_, denied, path, ReadDir(root, tree_, path), acc)
    ELSE visitFile(root, rules, tree_, path, acc)

walkDir(root, rules, tree_, denied, path, acc) ==
    IF path \in WalkDirs(root)
    THEN IF ShouldIgnore(root, rules, path, "dir") THEN acc
         ELSE IF path \in denied THEN acc
         ELSE walkEntries(root, rules, tree_, denied, path, ReadDir(root, tree_, path), acc)
    ELSE visitFile(root, rules, tree_, path, acc)

walkEntries(root, rules, tree_, denied, dir, names, acc) ==
    IF names = << >> THEN acc
    ELSE walkEntries(root, rules, tree_, denied, dir, Tail(names),
                     walkDir(root, rules, tree_, denied, Join(dir, Head(names)), acc))

\* a Discover that gives up with the error of a directory it cannot read
DiscoverAbortOnError(root, rules, tree_, access_) ==
    IF ~access_.rootExists THEN [projects |-> NilSlice, err |-> "nil"]
    ELSE IF access_.denied # {}
    THEN [projects |-> NilSlice, err |-> "permission denied"]
    ELSE [projects |-> walkDir(root, rules, tree_, access_.denied, root, NilSlice),
          err |-> "nil"]

\* Walker.Discover.  The callback returns nil or SkipDir only, so WalkDir
\* returns nil: also for a root that os.Lstat does not find, which WalkDir
\* reports to the callback and then leaves
Discover(root, rules, tree_, access_) ==
    IF ~access_.rootExists THEN [projects |-> NilSlice, err |-> "nil"]
    ELSE [projects |-> walkDir(root, rules, tree_, access_.denied, root, NilSlice),
          err |-> "nil"]

\* NewWalker, as the error it returns: filepath.Abs and NewMatcher return
\* none, whether the root exists or not
NewWalkerErr(access_) == "nil"

-----------------------------------------------------------------------------
(* Inputs of the walker: a root directory, there or not; at most MaxFiles  *)
(* files, each in one of the directories, readable or not; a directory     *)
(* that cannot be read; and a root .gitignore.                             *)

R_build == << "/","b","u","i","l","d" >>

WalkRoots == { R_root, R_build }

WalkFileNames == { F_gomod, F_packagejson, F_tsconfig }

WalkFiles(root) == {Join(d, f) : d \in WalkDirs(root), f \in WalkFileNames}

\* a content every detector of the walked names accepts
GoodContent ==
    [markers |-> {"module "}, parsed |-> TRUE, name |-> N_some,
     version |-> EmptyStr, tsDep |-> FALSE]

WalkData ==
    { [readable |-> TRUE, content |-> GoodContent],
      [readable |-> TRUE, content |-> IdleContent],
      [readable |-> FALSE, content |-> IdleContent] }

WalkTrees(root) ==
    UNION { [S -> WalkData] : S \in {T \in SUBSET WalkFiles(root) : Cardinality(T) <= MaxFiles} }

WalkGitignores ==
    { << >>, << << "a","/" >> >>, << << "*",".","j","s","o","n" >> >>, << << "*" >> >> }

FullAccess == [rootExists |-> TRUE, denied |-> {}]

\* what the file system grants below a root: everything, everything but
\* the entries of a, or nothing because the root is not there
Accesses(root) ==
    { FullAccess,
      [rootExists |-> TRUE, denied |-> {Join(root, << "a" >>)}],
      [rootExists |-> FALSE, denied |-> {}] }

NotDiscovered == [projects |-> NilSlice, err |-> "nil"]

WalkIdle ==
    /\ wpc = "idle"
    /\ tree = << >>
    /\ access = FullAccess
    /\ discovered = NotDiscovered

\* NewWalker: the matcher of the root, the registry.  A root that is not
\* there has no files and no .gitignore
WalkInit ==
    /\ wpc = "ready"
    /\ rootDir \in WalkRoots
    /\ access \in Accesses(rootDir)
    /\ rootDir = R_build => access = FullAccess
    /\ tree \in WalkTrees(rootDir)
    /\ ~access.rootExists => tree = << >>
    /\ discovered = NotDiscovered
    /\ mpc = "ready"
    /\ \E file \in WalkGitignores :
          /\ ~access.rootExists => file = << >>
          /\ gitignoreRules = parseGitignore(file)
    /\ query = NoQuery
    /\ NewWalkerErr(access) = "nil"

DoDiscover ==
    /\ wpc = "ready"
    /\ discovered' = Discover(rootDir, gitignoreRules, tree, access)
    /\ wpc' = "done"
    /\ UNCHANGED <<tree, access>>
    /\ UNCHANGED <<hierVars, detVars, ignVars, countVars, mergeVars, updVars>>

WalkNext == DoDiscover

-----------------------------------------------------------------------------
(* LOC counter.                                                            *)

\* the largest token of the scanner of countFile: scanner.Buffer(buf, 1024*1024)
MaxScanTokenSize == 1048576

\* limit := 5, the length of LargestFiles
LargestLimit == 5

\* A file is the sequence of its lines, each with its text and its length
\* in bytes (the text of a line beyond the scanner's ceiling is cut short
\* in the model, its length is not); every line ends with one newline byte.
Line(text) == [text |-> text, bytes |-> Len(text)]

\* info.Size(): the byte length of the file
RECURSIVE FileSize(_)
FileSize(lines) ==
    IF lines = << >> THEN 0 ELSE Head(lines).bytes + 1 + FileSize(Tail(lines))

\* &models.FileStats{Path: path, Size: info.Size()}
MkFileStats(path, size) ==
    [Path |-> path, Lines |-> 0, BlankLines |-> 0, CodeLines |-> 0, Size |-> size]

\* the body of the scan loop of countFile
scanLine(fs, line) ==
    IF TrimSpace(line.text) = EmptyStr
    THEN [fs EXCEPT !.Lines = @ + 1, !.BlankLines = @ + 1]
    ELSE [fs EXCEPT !.Lines = @ + 1, !.CodeLines = @ + 1]

\* the scan loop of countFile: Scan stops with ErrTooLong at a line that,
\* with its newline, does not fit a buffer of MaxScanTokenSize bytes
RECURSIVE scanLoop(_, _)
scanLoop(lines, fs) ==
    IF lines = << >> THEN [stats |-> fs, err |-> "nil"]
    ELSE IF Head(lines).bytes >= MaxScanTokenSize
    THEN [stats |-> fs, err |-> "bufio.Scanner: token too long"]
    ELSE scanLoop(Tail(lines), scanLine(fs, Head(lines)))

\* Counter.countFile on a file that opens
countFile(path, lines) == scanLoop(lines, MkFileStats(path, FileSize(lines)))

\* an addFileStats that adds the code lines to the line total
addFileStatsCodeOnly(ps, fs) ==
    [ps EXCEPT !.TotalFiles = @ + 1,
               !.TotalLines = @ + fs.CodeLines,
               !.BlankLines = @ + fs.BlankLines,
               !.CodeLines = @ + fs.CodeLines,
               !.TotalSize = @ + fs.Size]

\* Counter.addFileStats
addFileStats(ps, fs) ==
    [ps EXCEPT !.TotalFiles = @ + 1,
               !.TotalLines = @ + fs.Lines,
               !.BlankLines = @ + fs.BlankLines,
               !.CodeLines = @ + fs.CodeLines,
               !.TotalSize = @ + fs.Size]

\* sourceExtensionsByRuntime; a runtime type that is not a key has no
\* extensions
sourceExtensionsByRuntime(type) ==
    CASE type = RuntimeGo ->
        { << ".","g","o" >> }
      [] type = RuntimePython ->
        { << ".","p","y" >>,
          << ".","p","y","w" >>,
          << ".","p","y","i" >> }
      [] type = RuntimeJavaScript ->
        { << ".","j","s" >>,
          << ".","j","s","x" >>,
          << ".","m","j","s" >>,
          << ".","c","j","s" >> }
      [] type = RuntimeTypeScript ->
        { << ".","t","s" >>,
          << ".","t","s","x" >>,
          << ".","j","s" >>,
          << ".","j","s","x" >>,
          << ".","m","j","s" >>,
          << ".","c","j","s" >> }
      [] type = RuntimeJava ->
        { << ".","j","a","v","a" >>,
          << ".","k","t" >>,
          << ".","k","t","s" >>,
          << ".","s","c","a","l","a" >> }
      [] type = RuntimeDotNet ->
        { << ".","c","s" >>,
          << ".","f","s" >>,
          << ".","v","b" >> }
      [] type = RuntimeRust ->
        { << ".","r","s" >> }
      [] type = RuntimeDart ->
        { << ".","d","a","r","t" >> }
      [] type = RuntimeCpp ->
        { << ".","c" >>,
          << ".","h" >>,
          << ".","c","p","p" >>,
          << ".","c","c" >>,
          << ".","c","x","x" >>,
          << ".","h","p","p" >>,
          << ".","h","h" >>,
          << ".","h","x","x" >> }
      [] OTHER -> {}

\* isSourceFile
isSourceFile(path, type) ==
    ToLower(Ext(path)) \in sourceExtensionsByRuntime(type)

\* &models.ProjectStats{Project: project, LargestFiles: make(..., 0, 5)}
MkProjectStats(project) ==
    [Project |-> project, TotalFiles |-> 0, TotalFolders |-> 0, TotalLines |-> 0,
     BlankLines |-> 0, CodeLines |-> 0, TotalSize |-> 0,
     LargestFiles |-> << >>, AllFiles |-> << >>, Children |-> << >>]

\* filepath.Join(dir, name) for a clean relative name: joining "." gives dir
JoinPath(dir, name) == IF name = DotPath THEN dir ELSE Join(dir, name)

\* Matcher.Clone: an independent copy of the rules
Clone(rules) == rules

\* Matcher.AddPatterns: the patterns, parsed as gitignore lines, appended
AddPatterns(rules, patterns) == rules \o parseGitignore(patterns)

\* projectMatcher of CountProject: the base rules, the global excludes, the
\* project's exclude patterns
projectMatcher(rules, config, project) ==
    LET m0 == Clone(rules)
        m1 == IF Len(config.GlobalExcludes) > 0
              THEN AddPatterns(m0, config.GlobalExcludes) ELSE m0
    IN  IF Len(project.ExcludePatterns) > 0
        THEN AddPatterns(m1, project.ExcludePatterns) ELSE m1

\* the working state of one CountProject pass
MkPass(project) ==
    [stats |-> MkProjectStats(project), allFiles |-> << >>,
     folderSet |-> {}, seenFiles |-> {}]

\* c.addFileStats(stats, fileStats); allFiles = append(allFiles, *fileStats)
addCounted(st, r) ==
    IF r.err # "nil" THEN st
    ELSE [st EXCEPT !.stats = addFileStats(@, r.stats),
                    !.allFiles = Append(@, r.stats)]

\* the single-file branch of the source path loop.  keepsSeen tells the
\* CountProject that keeps seenFiles from the one that does not
countSingleFile(keepsSeen, fs_, fullPath, st) ==
    LET r == countFile(fullPath, fs_[fullPath]) IN
    IF r.err # "nil" THEN st
    ELSE IF ~keepsSeen THEN addCounted(st, r)
    ELSE IF fullPath \in st.seenFiles THEN st
    ELSE addCounted([st EXCEPT !.seenFiles = @ \cup {fullPath}], r)

\* the src-ignore-paths loop of the WalkDir callback
srcIgnored(relPath, ignorePaths) ==
    \E i \in DOMAIN ignorePaths :
        \/ relPath = ignorePaths[i]
        \/ HasPrefix(relPath, ignorePaths[i] \o << Sep >>)

\* the WalkDir callback of CountProject on a file entry
countWalkFile(keepsSeen, root, rules, fs_, project, path, st) ==
    IF ~isSourceFile(path, project.Type) THEN st
    ELSE IF ShouldIgnoreFile(root, rules, path) THEN st
    ELSE IF ~keepsSeen THEN addCounted(st, countFile(path, fs_[path]))
    ELSE IF path \in st.seenFiles THEN st
    ELSE addCounted([st EXCEPT !.seenFiles = @ \cup {path}],
                    countFile(path, fs_[path]))

\* filepath.WalkDir with the callback of CountProject
RECURSIVE countWalk(_, _, _, _, _, _, _)
RECURSIVE countWalkEntries(_, _, _, _, _, _, _, _)
countWalk(keepsSeen, root, rules, fs_, project, path, st) ==
    IF path \in WalkDirs(root)
    THEN LET relPath == Rel(JoinPath(root, project.Path), path) IN
         IF srcIgnored(relPath, project.SrcIgnorePaths) THEN st
         ELSE IF ShouldIgnore(root, rules, path, "dir") THEN st
         ELSE countWalkEntries(keepsSeen, root, rules, fs_, project, path,
                               ReadDir(root, fs_, path),
                               [st EXCEPT !.folderSet = @ \cup {path}])
    ELSE countWalkFile(keepsSeen, root, rules, fs_, project, path, st)

countWalkEntries(keepsSeen, root, rules, fs_, project, dir, names, st) ==
    IF names = << >> THEN st
    ELSE countWalkEntries(keepsSeen, root, rules, fs_, project, dir, Tail(names),
            countWalk(keepsSeen, root, rules, fs_, project,
                      Join(dir, Head(names)), st))

\* the loop over project.SourcePaths, from source path i
RECURSIVE sourcePathLoop(_, _, _, _, _, _, _)
sourcePathLoop(keepsSeen, root, rules, fs_, project, i, st) ==
    IF i > Len(project.SourcePaths) THEN st
    ELSE LET fullPath == JoinPath(JoinPath(root, project.Path), project.SourcePaths[i])
             next ==
                IF fullPath \in WalkDirs(root)
                THEN countWalk(keepsSeen, root, rules, fs_, project, fullPath, st)
                ELSE IF fullPath \in DOMAIN fs_
                THEN countSingleFile(keepsSeen, fs_, fullPath, st)
                ELSE st
         IN  sourcePathLoop(keepsSeen, root, rules, fs_, project, i + 1, next)

\* an insertion step that leaves the files in the order they were counted
InsertByLinesUnsorted(sorted, x) == Append(sorted, x)

\* the insertion step of sort.Slice(allFiles, Lines descending): slices of
\* at most 12 elements are sorted by insertion, x moving left past every
\* element with fewer lines
RECURSIVE InsertByLines(_, _)
InsertByLines(sorted, x) ==
    IF sorted = << >> THEN << x >>
    ELSE IF x.Lines > sorted[Len(sorted)].Lines
    THEN Append(InsertByLines(SubSeq(sorted, 1, Len(sorted) - 1), x),
                sorted[Len(sorted)])
    ELSE Append(sorted, x)

RECURSIVE SortByLines(_)
SortByLines(files) ==
    IF files = << >> THEN << >>
    ELSE InsertByLines(SortByLines(SubSeq(files, 1, Len(files) - 1)),
                       files[Len(files)])

\* allFiles[:limit]
Largest(files) ==
    SubSeq(files, 1, IF Len(files) < LargestLimit THEN Len(files) ELSE LargestLimit)

\* the error CountProject returns: return stats, nil
CountProjectErr == "nil"

\* Counter.CountProject
CountProject(root, rules, config, fs_, project) ==
    LET st == sourcePathLoop(TRUE, root, projectMatcher(rules, config, project),
                             fs_, project, 1, MkPass(project))
        allFiles == SortByLines(st.allFiles)
    IN  [st.stats EXCEPT !.TotalFolders = Cardinality(st.folderSet),
                         !.AllFiles = allFiles,
                         !.LargestFiles = Largest(allFiles)]

\* Counter.CountProject of internal/stats/counter.go: the base matcher, no
\* seenFiles, AllFiles not set
CountProjectBase(root, rules, fs_, project) ==
    LET st == sourcePathLoop(FALSE, root, rules, fs_, project, 1, MkPass(project))
        allFiles == SortByLines(st.allFiles)
    IN  [st.stats EXCEPT !.TotalFolders = Cardinality(st.folderSet),
                         !.LargestFiles = Largest(allFiles)]

\* a CountHierarchy that leaves out a project in which nothing was counted
RECURSIVE CountHierarchySkipEmpty(_, _, _, _, _)
CountHierarchySkipEmpty(root, rules, config, fs_, projects_) ==
    IF projects_ = << >> THEN << >>
    ELSE LET project == Head(projects_)
             stats == CountProject(root, rules, config, fs_, project)
             withChildren ==
                IF Len(project.Children) > 0
                THEN [stats EXCEPT !.Children =
                        CountHierarchySkipEmpty(root, rules, config, fs_, project.Children)]
                ELSE stats
         IN  (IF stats.TotalFiles = 0 THEN << >> ELSE << withChildren >>)
                 \o CountHierarchySkipEmpty(root, rules, config, fs_, Tail(projects_))

\* Counter.CountHierarchy: CountProject and the recursive call return a
\* nil error, so no project is skipped and the children are always attached
RECURSIVE CountHierarchy(_, _, _, _, _)
CountHierarchy(root, rules, config, fs_, projects_) ==
    IF projects_ = << >> THEN << >>
    ELSE LET project == Head(projects_)
             stats == CountProject(root, rules, config, fs_, project)
             withChildren ==
                IF CountProjectErr # "nil" THEN stats
                ELSE IF Len(project.Children) > 0
                THEN [stats EXCEPT !.Children =
                        CountHierarchy(root, rules, config, fs_, project.Children)]
                ELSE stats
         IN  (IF CountProjectErr # "nil" THEN << >> ELSE << withChildren >>)
                 \o CountHierarchy(root, rules, config, fs_, Tail(projects_))

\* totals := &models.ProjectStats{}, as the fields calculateTotals adds to
NoTotals ==
    [TotalFiles |-> 0, TotalFolders |-> 0, TotalLines |-> 0, BlankLines |-> 0,
     CodeLines |-> 0, TotalSize |-> 0]

\* the closure `aggregate` of calculateTotals: every node adds its own
\* totals, then its children are aggregated
RECURSIVE aggregate(_, _)
aggregate(list, totals) ==
    IF list = << >> THEN totals
    ELSE LET s == Head(list)
             own == [TotalFiles |-> totals.TotalFiles + s.TotalFiles,
                     TotalFolders |-> totals.TotalFolders + s.TotalFolders,
                     TotalLines |-> totals.TotalLines + s.TotalLines,
                     BlankLines |-> totals.BlankLines + s.BlankLines,
                     CodeLines |-> totals.CodeLines + s.CodeLines,
                     TotalSize |-> totals.TotalSize + s.TotalSize]
         IN  aggregate(Tail(list), aggregate(s.Children, own))

\* Reporter.calculateTotals
calculateTotals(stats) == aggregate(stats, NoTotals)

\* calculateTotals of the stats command: the same sums, as a TotalsOutput
cliCalculateTotals(stats) ==
    LET totals == aggregate(stats, NoTotals) IN
    [Files |-> totals.TotalFiles, Folders |-> totals.TotalFolders,
     TotalLines |-> totals.TotalLines, CodeLines |-> totals.CodeLines,
     BlankLines |-> totals.BlankLines, SizeBytes |-> totals.TotalSize]

-----------------------------------------------------------------------------
(* Inputs of the counter: the directories of the walker's tree, two files  *)
(* that are always there and the first n files of a list, n at most        *)
(* MaxSrcFiles; a project at the root with its source paths and excludes   *)
(* (a project without a runtime type has no excludes).                     *)

EmptyFile == << >>
TwoLines == << Line(<< " " >>), Line(<< "x" >>) >>
LongLine == [text |-> << "x" >>, bytes |-> MaxScanTokenSize + 1]
LongFile == << Line(<< "x" >>), LongLine, Line(<< "x" >>) >>

FileKinds == { EmptyFile, TwoLines, LongFile }

SrcFileList ==
    << << "m","a","i","n",".","g","o" >>,
       << "a","/","x",".","g","o" >>,
       << "a","/","b","/","y",".","g","o" >>,
       << "a","/","z",".","g","o" >>,
       << "w",".","g","o" >>,
       << "a","/","b","/","v",".","g","o" >>,
       << "u",".","g","o" >>,
       << "a","/","t",".","g","o" >> >>

F_notes == << "a","/","n","o","t","e","s",".","t","x","t" >>
F_dep == << "n","o","d","e","_","m","o","d","u","l","e","s","/","m",".","g","o" >>
F_main == << "m","a","i","n",".","g","o" >>
D_a == << "a" >>
D_ab == << "a","/","b" >>
D_missing == << "m","i","s","s","i","n","g" >>

StaticFiles ==
    [p \in {Join(R_root, F_notes), Join(R_root, F_dep)} |-> TwoLines]

SrcTreesUpTo(most) ==
    UNION { { StaticFiles @@ [p \in {Join(R_root, SrcFileList[i]) : i \in 1..n} |->
                                 kinds[CHOOSE i \in 1..n : Join(R_root, SrcFileList[i]) = p]] :
              kinds \in [1..n -> FileKinds] } :
            n \in 0..(IF most < Len(SrcFileList) THEN most ELSE Len(SrcFileList)) }

SrcTrees == SrcTreesUpTo(MaxSrcFiles)

SourcePathLists ==
    { << DotPath >>, << D_a, DotPath >>, << DotPath, D_a >>,
      << F_main, DotPath >>, << DotPath, F_main >>, << D_missing >> }

Exclusions ==
    { [src |-> << >>, project |-> << >>, global |-> << >>],
      [src |-> << D_ab >>, project |-> << >>, global |-> << >>],
      [src |-> << >>, project |-> << << "x",".","g","o" >> >>, global |-> << << "z",".","g","o" >> >>] }

\* the runtime type of a project whose type is not set
RuntimeUnknown == ""

MkCountProject(type, sourcePaths, ex) ==
    [Name |-> << "p" >>, Path |-> DotPath, Type |-> type,
     SourcePaths |-> sourcePaths, SrcIgnorePaths |-> ex.src,
     ExcludePatterns |-> ex.project, Children |-> << >>]

NoProject == MkCountProject(RuntimeUnknown, << >>, [src |-> << >>, project |-> << >>])

CountIdle ==
    /\ cpc = "idle"
    /\ cfs = << >>
    /\ cconfig = [GlobalExcludes |-> << >>]
    /\ cproject = NoProject
    /\ cstats = MkProjectStats(NoProject)
    /\ cforest = << >>
    /\ cresults = << >>
    /\ ctotals = NoTotals

\* NewCounter: the matcher of the root (no .gitignore), the configuration
CountInit ==
    /\ cpc = "ready"
    /\ cfs \in SrcTrees
    /\ \E type \in {RuntimeGo, RuntimeUnknown}, sp \in SourcePathLists, ex \in Exclusions :
        /\ type = RuntimeUnknown => ex.project = << >> /\ ex.src = << >>
        /\ cconfig = [GlobalExcludes |-> ex.global]
        /\ cproject = MkCountProject(type, sp, ex)
    /\ cstats = MkProjectStats(NoProject)
    /\ cforest = << >>
    /\ cresults = << >>
    /\ ctotals = NoTotals
    /\ mpc = "ready"
    /\ rootDir = R_root
    /\ gitignoreRules = << >>
    /\ query = NoQuery

DoCountProject ==
    /\ cpc = "ready"
    /\ cstats' = CountProject(rootDir, gitignoreRules, cconfig, cfs, cproject)
    /\ cpc' = "counted"
    /\ UNCHANGED <<cfs, cconfig, cproject, cforest, cresults, ctotals>>
    /\ UNCHANGED <<hierVars, detVars, ignVars, walkVars, mergeVars, updVars>>

\* CountProject of internal/stats/counter.go
DoCountProjectBase ==
    /\ cpc = "ready"
    /\ cstats' = CountProjectBase(rootDir, gitignoreRules, cfs, cproject)
    /\ cpc' = "countedBase"
    /\ UNCHANGED <<cfs, cconfig, cproject, cforest, cresults, ctotals>>
    /\ UNCHANGED <<hierVars, detVars, ignVars, walkVars, mergeVars, updVars>>

\* the projects of a hierarchy: at the root, in a and in a/b; each counts
\* Go files below its directory, names a source path that does not exist,
\* or has no runtime type
TreeProjectKinds == {"go", "missing", "unknown"}

MkTreeProject(path, kind, children) ==
    [Name |-> path, Path |-> path,
     Type |-> IF kind = "unknown" THEN RuntimeUnknown ELSE RuntimeGo,
     SourcePaths |-> IF kind = "missing" THEN << D_missing >> ELSE << DotPath >>,
     SrcIgnorePaths |-> << >>, ExcludePatterns |-> << >>, Children |-> children]

\* the project lists of at most three projects nested along their paths
Forests ==
    { << >> } \cup
    UNION { LET p1(c) == MkTreeProject(DotPath, k[1], c)
                p2(c) == MkTreeProject(D_a, k[2], c)
                p3(c) == MkTreeProject(D_ab, k[3], c)
            IN  { << p1(<< >>) >>,
                  << p2(<< >>), p3(<< >>) >> ,
                  << p1(<< p2(<< >>) >>) >>,
                  << p1(<< p2(<< >>), p3(<< >>) >>) >>,
                  << p1(<< p2(<< p3(<< >>) >>) >>) >>,
                  << p2(<< p3(<< >>) >>), p1(<< >>) >> }
            : k \in [1..3 -> TreeProjectKinds] }

\* the files of the hierarchy: the first two of the list at most
MostTreeFiles == 2

CountTreeInit ==
    /\ cpc = "readyTree"
    /\ cfs \in SrcTreesUpTo(MostTreeFiles)
    /\ cconfig = [GlobalExcludes |-> << >>]
    /\ cproject = NoProject
    /\ cstats = MkProjectStats(NoProject)
    /\ cforest \in Forests
    /\ cresults = << >>
    /\ ctotals = NoTotals
    /\ mpc = "ready"
    /\ rootDir = R_root
    /\ gitignoreRules = << >>
    /\ query = NoQuery

DoCountHierarchy ==
    /\ cpc = "readyTree"
    /\ cresults' = CountHierarchy(rootDir, gitignoreRules, cconfig, cfs, cforest)
    /\ cpc' = "countedTree"
    /\ UNCHANGED <<cfs, cconfig, cproject, cstats, cforest, ctotals>>
    /\ UNCHANGED <<hierVars, detVars, ignVars, walkVars, mergeVars, updVars>>

\* the reporter prints the grand totals of the counted hierarchy
DoCalculateTotals ==
    /\ cpc = "countedTree"
    /\ ctotals' = calculateTotals(cresults)
    /\ cpc' = "totalled"
    /\ UNCHANGED <<cfs, cconfig, cproject, cstats, cforest, cresults>>
    /\ UNCHANGED <<hierVars, detVars, ignVars, walkVars, mergeVars, updVars>>

\* the stats command writes the grand totals of the counted hierarchy
DoCliCalculateTotals ==
    /\ cpc = "countedTree"
    /\ ctotals' = cliCalculateTotals(cresults)
    /\ cpc' = "totalledCli"
    /\ UNCHANGED <<cfs, cconfig, cproject, cstats, cforest, cresults>>
    /\ UNCHANGED <<hierVars, detVars, ignVars, walkVars, mergeVars, updVars>>

CountTreeNext == DoCountHierarchy \/ DoCalculateTotals \/ DoCliCalculateTotals

CountNext == DoCountProject \/ DoCountProjectBase

-----------------------------------------------------------------------------
(* Config merge.                                                           *)

\* buildProjectMap: a later project of a path replaces an earlier one
RECURSIVE buildProjectMap(_)
buildProjectMap(ps) ==
    IF ps = << >> THEN << >>
    ELSE LET rest == buildProjectMap(SubSeq(ps, 1, Len(ps) - 1))
             p == ps[Len(ps)]
         IN  [k \in DOMAIN rest \cup {p.Path} |-> IF k = p.Path THEN p ELSE rest[k]]

\* mergeProject
mergeProject(existing, discovered_) ==
    [Name |-> discovered_.Name, Path |-> existing.Path,
     Runtime |-> discovered_.Runtime, ManifestFile |-> discovered_.ManifestFile,
     SourcePaths |-> discovered_.SourcePaths,
     ExcludePatterns |-> existing.ExcludePatterns,
     Children |-> discovered_.Children,
     SrcIgnorePaths |-> IF Len(existing.SrcIgnorePaths) > 0
                        THEN existing.SrcIgnorePaths ELSE discovered_.SrcIgnorePaths]

\* an applyConfigOverrides that appends the override lists to the fields
applyConfigOverridesAppend(project, cfg) ==
    IF cfg.isNil THEN project
    ELSE IF project.Path \notin DOMAIN cfg.ProjectOverrides THEN project
    ELSE LET override == cfg.ProjectOverrides[project.Path] IN
         [project EXCEPT
            !.ExcludePatterns = @ \o override.ExcludePatterns,
            !.SrcIgnorePaths = @ \o override.SrcIgnorePaths,
            !.SourcePaths = @ \o override.SourcePaths]

\* applyConfigOverrides, as the project it leaves behind.  A nil
\* ProjectOverrides map is a map without keys
applyConfigOverrides(project, cfg) ==
    IF cfg.isNil THEN project
    ELSE IF project.Path \notin DOMAIN cfg.ProjectOverrides THEN project
    ELSE LET override == cfg.ProjectOverrides[project.Path] IN
         [project EXCEPT
            !.ExcludePatterns = IF Len(override.ExcludePatterns) > 0
                                THEN override.ExcludePatterns ELSE @,
            !.SrcIgnorePaths = IF Len(override.SrcIgnorePaths) > 0
                               THEN override.SrcIgnorePaths ELSE @,
            !.SourcePaths = IF Len(override.SourcePaths) > 0
                            THEN override.SourcePaths ELSE @]

\* the loop of MergeProjects over the discovered projects, from project i
RECURSIVE discoveredLoop(_, _, _, _, _)
discoveredLoop(ds, i, existingMap, cfg, result) ==
    IF i > Len(ds) THEN [result |-> result, existingMap |-> existingMap]
    ELSE LET d == ds[i] IN
         IF d.Path \in DOMAIN existingMap
         THEN discoveredLoop(ds, i + 1,
                  [k \in DOMAIN existingMap \ {d.Path} |-> existingMap[k]], cfg,
                  Append(result, applyConfigOverrides(mergeProject(existingMap[d.Path], d), cfg)))
         ELSE discoveredLoop(ds, i + 1, existingMap, cfg,
                  Append(result, applyConfigOverrides(d, cfg)))

\* the loop of MergeProjects over existingMap, in the order `keys` in which
\* range yields them
RECURSIVE retainedLoop(_, _, _, _)
retainedLoop(keys, existingMap, cfg, result) ==
    IF keys = << >> THEN result
    ELSE retainedLoop(Tail(keys), existingMap, cfg,
                      Append(result, applyConfigOverrides(existingMap[Head(keys)], cfg)))

\* the orders in which range can yield the keys of a map
KeyOrders(S) ==
    {o \in [1..Cardinality(S) -> S] : \A i, j \in DOMAIN o : i # j => o[i] # o[j]}

\* a MergeProjects that returns the discovered projects only
MergeProjectsDiscoveredOnly(ds, es, cfg, keys) ==
    discoveredLoop(ds, 1, buildProjectMap(es), cfg, << >>).result

\* MergeProjects, the map being ranged over in the order keys
MergeProjects(ds, es, cfg, keys) ==
    LET first == discoveredLoop(ds, 1, buildProjectMap(es), cfg, << >>)
    IN  retainedLoop(keys, first.existingMap, cfg, first.result)

\* the keys of existingMap that the discovered loop leaves
RetainedKeys(ds, es, cfg) ==
    DOMAIN discoveredLoop(ds, 1, buildProjectMap(es), cfg, << >>).existingMap

-----------------------------------------------------------------------------
(* Inputs of the merge: lists of at most MaxMerge projects at the root and *)
(* in a.  Two discovered projects may have the same path (Discover returns *)
(* one project per manifest), and so may two saved ones.                   *)

MergePaths == { DotPath, D_a }

P_gen == << "g","e","n" >>
P_old == << "o","l","d" >>
P_tmp == << "*",".","t","m","p" >>
P_over == << "o","v","e","r" >>

\* a project handed in as discovered: found by its go.mod or by its
\* package.json, without exclude patterns, with or without src-ignore
\* paths, with a child
DiscoveredProject(path, manifest) ==
    [Name |-> << "n","e","w" >>, Path |-> path,
     Runtime |-> [Type |-> IF manifest = F_gomod THEN RuntimeGo ELSE RuntimeJavaScript,
                  Version |-> V_some],
     ManifestFile |-> manifest, SourcePaths |-> << DotPath >>,
     SrcIgnorePaths |-> IF manifest = F_gomod THEN << P_gen >> ELSE << >>,
     ExcludePatterns |-> << >>,
     Children |-> << [Name |-> << "s","u","b" >>, Path |-> IF path = DotPath THEN << "b" >> ELSE Join(path, << "b" >>)] >>]

\* a project as saved earlier, with the user's edits
ExistingProject(path, excludes, ignorePaths) ==
    [Name |-> << "o","l","d" >>, Path |-> path,
     Runtime |-> [Type |-> RuntimePython, Version |-> EmptyStr],
     ManifestFile |-> F_setuppy, SourcePaths |-> << << "s","r","c" >> >>,
     SrcIgnorePaths |-> ignorePaths, ExcludePatterns |-> excludes,
     Children |-> << >>]

DiscoveredProjects ==
    { DiscoveredProject(p, f) : p \in MergePaths, f \in { F_gomod, F_packagejson } }

ExistingProjects ==
    { ExistingProject(p, e[1], e[2]) :
        p \in MergePaths,
        e \in { << << >>, << >> >>, << << P_tmp >>, << >> >>, << << P_tmp >>, << P_old >> >> } }

ListsOf(S) == UNION { [1..n -> S] : n \in 0..MaxMerge }

NilConfig == [isNil |-> TRUE, ProjectOverrides |-> << >>]

MkConfig(overrides) == [isNil |-> FALSE, ProjectOverrides |-> overrides]

MkOverride(excludes, ignorePaths, sourcePaths) ==
    [ExcludePatterns |-> excludes, SrcIgnorePaths |-> ignorePaths,
     SourcePaths |-> sourcePaths]

MergeConfigs ==
    { NilConfig,
      MkConfig(<< >>),
      MkConfig([p \in {DotPath} |-> MkOverride(<< P_over >>, << >>, << >>)]),
      MkConfig([p \in {D_a} |-> MkOverride(<< P_over >>, << P_over >>, << P_over >>)]) }

MergeIdle ==
    /\ gpc = "idle"
    /\ mdiscovered = << >>
    /\ mexisting = << >>
    /\ mcfg = NilConfig
    /\ mresult = << >>

MergeInit ==
    /\ gpc = "input"
    /\ mdiscovered \in ListsOf(DiscoveredProjects)
    /\ mexisting \in ListsOf(ExistingProjects)
    /\ mcfg \in MergeConfigs
    /\ mresult = << >>

DoMergeProjects ==
    /\ gpc = "input"
    /\ \E keys \in KeyOrders(RetainedKeys(mdiscovered, mexisting, mcfg)) :
        mresult' = MergeProjects(mdiscovered, mexisting, mcfg, keys)
    /\ gpc' = "done"
    /\ UNCHANGED <<mdiscovered, mexisting, mcfg>>
    /\ UNCHANGED <<hierVars, detVars, ignVars, walkVars, countVars, updVars>>

MergeNext == DoMergeProjects

-----------------------------------------------------------------------------
(* Self-update: downloadAndInstall.                                        *)
(*                                                                         *)
(* The function is followed statement by statement; what the network and   *)
(* the file system answer is chosen at each step.  Of the temporary file   *)
(* the model keeps whether the variable tmpFile still holds it and whether *)
(* it is on disk next to the executable.                                   *)

\* the deferred func of downloadAndInstall: closes and removes the
\* temporary file when tmpFile is not nil; the value is whether the file
\* is on disk afterwards
deferredCleanup(tmpFileSet, onDisk) == IF tmpFileSet THEN FALSE ELSE onDisk

\* a return of downloadAndInstall with the error e
ReturnErr(e) ==
    /\ uerr' = e
    /\ upc' = "returned"
    /\ utmpOnDisk' = deferredCleanup(utmpFile, utmpOnDisk)

\* what the caller passes and where the program runs
UpdateInputs ==
    [urlAllowed : BOOLEAN, hasChecksumAsset : BOOLEAN, checksumUrlAllowed : BOOLEAN,
     skipChecksum : BOOLEAN, goos : {"windows", "linux"}]

NoUpdate ==
    [urlAllowed |-> FALSE, hasChecksumAsset |-> FALSE, checksumUrlAllowed |-> FALSE,
     skipChecksum |-> FALSE, goos |-> "linux"]

UpdIdle ==
    /\ upc = "idle"
    /\ uin = NoUpdate
    /\ utmpFile = FALSE
    /\ utmpOnDisk = FALSE
    /\ uexec = "old"
    /\ uerr = "nil"

\* before the call: the running binary is at execPath, no temporary file
\* is next to it
UpdInit ==
    /\ upc = "validate"
    /\ uin \in UpdateInputs
    /\ utmpFile = FALSE
    /\ utmpOnDisk = FALSE
    /\ uexec = "old"
    /\ uerr = "nil"

\* isAllowedDownloadURL(asset.BrowserDownloadURL)
ValidateURL ==
    /\ upc = "validate"
    /\ IF ~uin.urlAllowed THEN ReturnErr("invalid download URL")
       ELSE upc' = "execPath" /\ UNCHANGED <<uerr, utmpOnDisk>>
    /\ UNCHANGED <<uin, utmpFile, uexec>>
    /\ UNCHANGED <<hierVars, detVars, ignVars, walkVars, countVars, mergeVars>>

\* os.Executable and filepath.EvalSymlinks
ResolveExecPath ==
    /\ upc = "execPath"
    /\ \E answer \in {"ok", "cannot determine executable path",
                      "cannot resolve executable path"} :
          IF answer # "ok" THEN ReturnErr(answer)
          ELSE upc' = "createTemp" /\ UNCHANGED <<uerr, utmpOnDisk>>
    /\ UNCHANGED <<uin, utmpFile, uexec>>
    /\ UNCHANGED <<hierVars, detVars, ignVars, walkVars, countVars, mergeVars>>

\* os.CreateTemp(filepath.Dir(execPath), "repo-ctr-update-*"); the cleanup
\* is deferred after it
CreateTemp ==
    /\ upc = "createTemp"
    /\ \E ok \in BOOLEAN :
          IF ~ok THEN ReturnErr("cannot create temporary file") /\ UNCHANGED utmpFile
          ELSE /\ utmpFile' = TRUE
               /\ utmpOnDisk' = TRUE
               /\ upc' = "download"
               /\ UNCHANGED uerr
    /\ UNCHANGED <<uin, uexec>>
    /\ UNCHANGED <<hierVars, detVars, ignVars, walkVars, countVars, mergeVars>>

\* httpClient.Get and the status test
Download ==
    /\ upc = "download"
    /\ \E answer \in {"ok", "download failed", "download failed with status"} :
          IF answer # "ok" THEN ReturnErr(answer)
          ELSE upc' = "copy" /\ UNCHANGED <<uerr, utmpOnDisk>>
    /\ UNCHANGED <<uin, utmpFile, uexec>>
    /\ UNCHANGED <<hierVars, detVars, ignVars, walkVars, countVars, mergeVars>>

\* io.Copy into the temporary file and the hash, then tmpFile.Close() and
\* tmpFile = nil
CopyBody ==
    /\ upc = "copy"
    /\ \E ok \in BOOLEAN :
          IF ~ok THEN ReturnErr("failed to write file") /\ UNCHANGED utmpFile
          ELSE /\ utmpFile' = FALSE
               /\ upc' = "verify"
               /\ UNCHANGED <<uerr, utmpOnDisk>>
    /\ UNCHANGED <<uin, uexec>>
    /\ UNCHANGED <<hierVars, detVars, ignVars, walkVars, countVars, mergeVars>>

\* the checksum verification
VerifyChecksum ==
    /\ upc = "verify"
    /\ IF uin.skipChecksum THEN upc' = "chmod" /\ UNCHANGED <<uerr, utmpOnDisk>>
       ELSE IF ~uin.hasChecksumAsset
       THEN ReturnErr("checksum verification failed: no checksum file available")
       ELSE IF ~uin.checksumUrlAllowed THEN ReturnErr("invalid checksum URL")
       ELSE \E answer \in {"ok", "checksum verification failed", "checksum mismatch"} :
               IF answer # "ok" THEN ReturnErr(answer)
               ELSE upc' = "chmod" /\ UNCHANGED <<uerr, utmpOnDisk>>
    /\ UNCHANGED <<uin, utmpFile, uexec>>
    /\ UNCHANGED <<hierVars, detVars, ignVars, walkVars, countVars, mergeVars>>

\* os.Chmod(tmpPath, 0755)
Chmod ==
    /\ upc = "chmod"
    /\ \E ok \in BOOLEAN :
          IF ~ok THEN ReturnErr("failed to set permissions")
          ELSE upc' = "replace" /\ UNCHANGED <<uerr, utmpOnDisk>>
    /\ UNCHANGED <<uin, utmpFile, uexec>>
    /\ UNCHANGED <<hierVars, detVars, ignVars, walkVars, countVars, mergeVars>>

\* the replacement on Windows: the old binary is renamed to .old, the
\* temporary file to execPath; when that fails the old binary is renamed
\* back, which can fail too
ReplaceWindows ==
    /\ upc = "replace"
    /\ uin.goos = "windows"
    /\ \E answer \in {"ok", "failed to backup old binary",
                      "failed to install new binary",
                      "failed to install new binary (rollback also failed)"} :
          IF answer = "ok"
          THEN /\ uexec' = "new"
               /\ utmpOnDisk' = FALSE
               /\ uerr' = "nil"
               /\ upc' = "returned"
          ELSE /\ ReturnErr(answer)
               /\ uexec' = IF answer = "failed to install new binary (rollback also failed)"
                           THEN "none" ELSE "old"
    /\ UNCHANGED <<uin, utmpFile>>
    /\ UNCHANGED <<hierVars, detVars, ignVars, walkVars, countVars, mergeVars>>

\* the replacement elsewhere: one rename
ReplaceUnix ==
    /\ upc = "replace"
    /\ uin.goos # "windows"
    /\ \E ok \in BOOLEAN :
          IF ok
          THEN /\ uexec' = "new"
               /\ utmpOnDisk' = FALSE
               /\ uerr' = "nil"
               /\ upc' = "returned"
          ELSE ReturnErr("failed to install new binary") /\ UNCHANGED uexec
    /\ UNCHANGED <<uin, utmpFile>>
    /\ UNCHANGED <<hierVars, detVars, ignVars, walkVars, countVars, mergeVars>>

UpdNext ==
    \/ ValidateURL \/ ResolveExecPath \/ CreateTemp \/ Download \/ CopyBody
    \/ VerifyChecksum \/ Chmod \/ ReplaceWindows \/ ReplaceUnix

InitHier == HierInit /\ DetIdle /\ IgnIdle /\ WalkIdle /\ CountIdle /\ MergeIdle /\ UpdIdle
SpecHier == InitHier /\ [][HierNext]_vars

InitDetect == DetInit /\ HierIdle /\ IgnIdle /\ WalkIdle /\ CountIdle /\ MergeIdle /\ UpdIdle
SpecDetect == InitDetect /\ [][DetNext]_vars

InitDetectOrder == DetOrderInit /\ HierIdle /\ IgnIdle /\ WalkIdle /\ CountIdle /\ MergeIdle /\ UpdIdle
SpecDetectOrder == InitDetectOrder /\ [][DetNext]_vars

InitIgnore == IgnInit /\ HierIdle /\ DetIdle /\ WalkIdle /\ CountIdle /\ MergeIdle /\ UpdIdle
SpecIgnore == InitIgnore /\ [][IgnNext]_vars

InitWalk == WalkInit /\ HierIdle /\ DetIdle /\ CountIdle /\ MergeIdle /\ UpdIdle
SpecWalk == InitWalk /\ [][WalkNext]_vars

InitCount == CountInit /\ HierIdle /\ DetIdle /\ WalkIdle /\ MergeIdle /\ UpdIdle
SpecCount == InitCount /\ [][CountNext]_vars

InitCountTree == CountTreeInit /\ HierIdle /\ DetIdle /\ WalkIdle /\ MergeIdle /\ UpdIdle
SpecCountTree == InitCountTree /\ [][CountTreeNext]_vars

InitMerge == MergeInit /\ HierIdle /\ DetIdle /\ IgnIdle /\ WalkIdle /\ CountIdle /\ UpdIdle
SpecMerge == InitMerge /\ [][MergeNext]_vars

InitUpdate == UpdInit /\ HierIdle /\ DetIdle /\ IgnIdle /\ WalkIdle /\ CountIdle /\ MergeIdle
SpecUpdate == InitUpdate /\ [][UpdNext]_vars

-----------------------------------------------------------------------------
(* Properties of the hierarchy builder.                                    *)

Ids == DOMAIN heap
Range(s) == {s[i] : i \in DOMAIN s}
Occurrences(s, x) == Cardinality({i \in DOMAIN s : s[i] = x})
IndexOf(s, x) == CHOOSE i \in DOMAIN s : s[i] = x

\* the projects that list p among their Children
TreeParents(p) == {q \in Ids : p \in Range(heap[q].Children)}

\* a is a proper ancestor directory of p, by path containment ("." apart)
IsAncestorDir(a, p) ==
    /\ a # DotPath
    /\ Len(a) < Len(p)
    /\ SubSeq(p, 1, Len(a)) = a
    /\ p[Len(a) + 1] = Sep

AncestorsInList(p) == {q \in Ids : IsAncestorDir(heap[q].Path, heap[p].Path)}

NearestAncestorInList(p) ==
    CHOOSE q \in AncestorsInList(p) :
        \A r \in AncestorsInList(p) : Len(heap[r].Path) <= Len(heap[q].Path)

HasDotProject == \E q \in Ids : heap[q].Path = DotPath

RECURSIVE DescendantsOf(_)
DescendantsOf(q) ==
    Range(heap[q].Children)
        \cup UNION {DescendantsOf(c) : c \in Range(heap[q].Children)}

\* the sibling lists of the tree: the roots and every Children list
SiblingLists == {roots.elems} \cup {heap[q].Children : q \in Ids}

\* C1: Flatten(Build(list)) holds exactly the projects of list, each once,
\* and every project comes after its parent.
C1_FlattenIsPermutation ==
    hpc = "flat" =>
        /\ LenSlice(flat) = LenSlice(projects)
        /\ \A p \in Range(projects.elems) : Occurrences(flat.elems, p) = 1
        /\ \A p \in Ids : \A q \in TreeParents(p) :
               IndexOf(flat.elems, q) < IndexOf(flat.elems, p)

\* a flattened tree of three levels: a grandchild after its parent and root
C1_Witness ==
    /\ hpc = "flat"
    /\ \E p, q, r \in Ids :
        /\ q \in TreeParents(p)
        /\ r \in TreeParents(q)
        /\ r \in Range(roots.elems)

\* C2: with a project at ".", Build returns that project as the only root
\* and every other project is one of its descendants.
C2_DotIsOnlyRoot ==
    (hpc = "built" /\ HasDotProject) =>
        LET dot == CHOOSE q \in Ids : heap[q].Path = DotPath IN
        /\ roots.elems = << dot >>
        /\ \A p \in Ids \ {dot} : p \in DescendantsOf(dot)

\* C3: the parent of a project is the project at its longest proper
\* ancestor directory present in the list; without any ancestor project and
\* without a "." project it is a root; pairwise disjoint paths give as many
\* roots as projects.
C3_ParentIsNearestAncestor ==
    hpc = "built" =>
        /\ \A p \in Ids :
            /\ AncestorsInList(p) # {} =>
                   /\ TreeParents(p) = {NearestAncestorInList(p)}
                   /\ Occurrences(heap[NearestAncestorInList(p)].Children, p) = 1
                   /\ p \notin Range(roots.elems)
            /\ (AncestorsInList(p) = {} /\ ~HasDotProject) =>
                   /\ TreeParents(p) = {}
                   /\ Occurrences(roots.elems, p) = 1
        /\ ((\A p \in Ids : AncestorsInList(p) = {}) /\ ~HasDotProject) =>
               LenSlice(roots) = LenSlice(projects)

\* a project two levels below its parent: the directory between holds no project
C3_Witness ==
    /\ hpc = "built"
    /\ \E p \in Ids :
        /\ AncestorsInList(p) # {}
        /\ heap[NearestAncestorInList(p)].Path # Dir(heap[p].Path)
        /\ TreeParents(p) = {NearestAncestorInList(p)}

\* the position of a project in the input list
InputIndex(p) == IndexOf(projects.elems, p)

\* C4 as stated: siblings keep the relative order of the input list.
C4_SiblingsInInputOrder ==
    hpc = "built" =>
        \A s \in SiblingLists : \A i, j \in DOMAIN s :
            i < j => InputIndex(s[i]) < InputIndex(s[j])

\* the order Build sorts by: fewer separators first, then the smaller path
SortKeyLess(p, q) ==
    \/ Count(heap[p].Path, Sep) < Count(heap[q].Path, Sep)
    \/ /\ Count(heap[p].Path, Sep) = Count(heap[q].Path, Sep)
       /\ StrLess(heap[p].Path, heap[q].Path)

\* C4 amended: siblings are ordered by path depth, then by path.
C4_SiblingsInSortedOrder ==
    hpc = "built" =>
        \A s \in SiblingLists : \A i, j \in DOMAIN s :
            i < j => SortKeyLess(s[i], s[j])

\* two siblings whose order in the tree is the reverse of the input's, in a
\* list that holds no project at "."
C4_Witness ==
    /\ hpc = "built"
    /\ ~HasDotProject
    /\ \E s \in SiblingLists : \E i, j \in DOMAIN s :
        i < j /\ InputIndex(s[j]) < InputIndex(s[i])

\* C5: Build on a nil list and on an empty list returns a nil slice.
C5_EmptyInputYieldsNil ==
    (hpc = "built" /\ LenSlice(projects) = 0) => roots = NilSlice

\* Build has returned for the empty, non-nil list
C5_Witness ==
    /\ hpc = "built"
    /\ projects = MkSlice(<< >>)
    /\ roots.isNil

\* the tree below a list of objects, as nested paths
RECURSIVE TreeOf(_, _)
TreeOf(h, ids) ==
    [i \in DOMAIN ids |->
        [Path |-> h[ids[i]].Path, Children |-> TreeOf(h, h[ids[i]].Children)]]

\* C28: Build does not depend on Children already present on its input:
\* Build(Flatten(Build(list))) is a tree equal to Build(list), in which
\* every project still appears exactly once.
C28_RebuildIsIdentity ==
    hpc = "rebuilt" =>
        /\ TreeOf(rebuilt.heap, rebuilt.roots.elems) = TreeOf(heap, roots.elems)
        /\ \A p \in DOMAIN heap :
              Occurrences(FlattenList(rebuilt.heap, rebuilt.roots.elems), p) = 1


-----------------------------------------------------------------------------
(* Properties of the detectors.                                            *)

TheFile == Base(manifestPath)
TheExt == ToLower(Ext(manifestPath))
TheProject == CHOOSE p \in detected.project : TRUE

ReferencesDotNetProject ==
    \/ ".csproj" \in content.markers
    \/ ".fsproj" \in content.markers
    \/ ".vbproj" \in content.markers

\* C7: a .sln file is detected as .NET exactly when it holds the Visual
\* Studio signature and references a .csproj, .fsproj or .vbproj; a .sln that
\* references only .vcxproj yields no project at all.
C7_SlnDetection ==
    (dpc = "done" /\ TheExt = E_sln) =>
        /\ detected.project # {} <=>
               ("Microsoft Visual Studio" \in content.markers /\ ReferencesDotNetProject)
        /\ detected.project # {} => TheProject.Type = RuntimeDotNet
        /\ (".vcxproj" \in content.markers /\ ~ReferencesDotNetProject) =>
               detected = NotApplicable

\* a Visual Studio solution that references a .vcxproj only, and is not claimed
C7_Witness ==
    /\ dpc = "done"
    /\ TheFile = F_sln
    /\ content.markers = {"Microsoft Visual Studio", ".vcxproj"}
    /\ detected.project = {}

\* the manifests that go through a structured decoder, once recognised
IsProjectFile == TheExt \in {E_csproj, E_fsproj, E_vbproj}
ParseFailure ==
    /\ ~content.parsed
    /\ \/ TheFile \in {F_pyproject, F_packagejson, F_pubspec, F_cargo}
       \/ TheFile = F_pomxml /\ "<project" \in content.markers
       \/ IsProjectFile /\ "<Project" \in content.markers

\* C8 as stated: no error is ever returned, and a parse failure on a
\* recognised manifest yields a project with empty version and the directory
\* name as name.
C8_NoHardFailDirName ==
    dpc = "done" =>
        /\ detected.err = "nil"
        /\ ParseFailure =>
            /\ detected.project # {}
            /\ TheProject.Version = EmptyStr
            /\ TheProject.Name = Base(Dir(manifestPath))

\* C8 amended: as above, except that a .csproj/.fsproj/.vbproj file is named
\* after the file: its base name with the lower-case extension trimmed.
C8_NoHardFailDefaultName ==
    dpc = "done" =>
        /\ detected.err = "nil"
        /\ ParseFailure =>
            /\ detected.project # {}
            /\ TheProject.Version = EmptyStr
            /\ TheProject.Name =
                   IF IsProjectFile THEN TrimSuffix(TheFile, TheExt)
                   ELSE Base(Dir(manifestPath))

\* a .csproj that holds <Project but is not well-formed XML, detected and
\* named after the file
C8_Witness ==
    /\ dpc = "done"
    /\ TheFile = F_csproj
    /\ ParseFailure
    /\ detected.project # {}
    /\ TheProject.Name = << "x" >>
    /\ TheProject.Version = EmptyStr

\* C9: a detected package.json is TypeScript when a sibling tsconfig.json
\* exists or typescript is a (dev) dependency, and JavaScript otherwise.
C9_TypeScriptRule ==
    (dpc = "done" /\ TheFile = F_packagejson /\ detected.project # {}) =>
        TheProject.Type =
            IF tsconfig \/ content.tsDep THEN RuntimeTypeScript ELSE RuntimeJavaScript

\* the detectors that return a project for the manifest at hand
Claimants ==
    {i \in DOMAIN Detectors :
        Detect(Detectors[i], manifestPath, content, tsconfig).project # {}}

\* the registry order turned round
ReversedDetectors ==
    [i \in DOMAIN Detectors |-> Detectors[Len(Detectors) + 1 - i]]

\* C30: for every manifest path and content at most one registered
\* detector returns a project, so that the result of DetectProject is the
\* same under any permutation of the registry's detector order.
C30_OneClaimant ==
    dpc = "done" =>
        /\ Cardinality(Claimants) <= 1
        /\ \A i \in Claimants :
              Detect(Detectors[i], manifestPath, content, tsconfig) = detected
        /\ DetectLoop(ReversedDetectors, 1, manifestPath, content, tsconfig) = detected

\* a Visual Studio solution that names a .csproj: the .NET detector
\* returns a project, the C/C++ detector does not
C30_Witness ==
    /\ dpc = "done"
    /\ ToLower(Ext(manifestPath)) = E_sln
    /\ Cardinality(Claimants) = 1
    /\ detected.project # {}

-----------------------------------------------------------------------------
(* Properties of the ignore matcher.                                       *)

\* C10: ShouldIgnore and ShouldIgnoreFile return true for every path whose
\* base name is a built-in exclusion, whatever the gitignore rules are.
C10_BuiltInAlwaysIgnored ==
    (query.op \in {"ShouldIgnore", "ShouldIgnoreFile"}
        /\ Base(query.path) \in DefaultIgnorePatterns) => query.result

\* node_modules asked about under a matcher whose rules hold !node_modules
C10_Witness ==
    /\ query.op = "ShouldIgnore"
    /\ Base(query.path) = << "n","o","d","e","_","m","o","d","u","l","e","s" >>
    /\ \E i \in DOMAIN gitignoreRules :
        /\ gitignoreRules[i].negate
        /\ gitignoreRules[i].pattern = Base(query.path)
    /\ query.result

-----------------------------------------------------------------------------
(* Properties of the walker.                                               *)

\* C6: the flat project list returned by Discover never holds two
\* projects with the same path.
C6_UniquePaths ==
    wpc = "done" =>
        \A i, j \in DOMAIN discovered.projects.elems :
            i # j => discovered.projects.elems[i].Path # discovered.projects.elems[j].Path


\* the call recorded in query was decided by the gitignore rules: neither
\* the built-in names nor the built-in extensions applied
DecidedByRules ==
    /\ query.op \in {"ShouldIgnore", "ShouldIgnoreFile"}
    /\ Base(query.path) \notin DefaultIgnorePatterns
    /\ ~(query.op = "ShouldIgnore" /\ query.stat # "dir"
            /\ ToLower(Ext(query.path)) \in DefaultIgnoreExtensions)
    /\ ~(query.op = "ShouldIgnoreFile"
            /\ ToLower(Ext(query.path)) \in DefaultIgnoreExtensions)

\* whether the recorded call evaluates the rules for a directory
QueryIsDir == query.op = "ShouldIgnore" /\ query.stat = "dir"

\* the indices of the rules that apply to the recorded call and match it
MatchingRules ==
    {i \in DOMAIN gitignoreRules :
        /\ ~(gitignoreRules[i].dirOnly /\ ~QueryIsDir)
        /\ ruleMatches(gitignoreRules[i], Rel(rootDir, query.path))}

\* C11: rule evaluation is last-match-wins: the result is `not negate` of
\* the last rule that matches (directory-only rules skipped for
\* non-directories), and false when no rule matches.
C11_LastMatchWins ==
    DecidedByRules =>
        query.result =
            IF MatchingRules = {} THEN FALSE
            ELSE LET last == CHOOSE i \in MatchingRules : \A j \in MatchingRules : j <= i
                 IN  ~gitignoreRules[last].negate

\* two rules match, the earlier says ignore and the later re-includes
C11_Witness ==
    /\ DecidedByRules
    /\ \E i, j \in MatchingRules :
        /\ i < j
        /\ ~gitignoreRules[i].negate
        /\ gitignoreRules[j].negate
    /\ ~query.result

\* C12: for a path that is not an existing directory ShouldIgnore and
\* ShouldIgnoreFile return the same value, and directory-only rules do not
\* contribute to it.
C12_FileAgreement ==
    (query.op \in {"ShouldIgnore", "ShouldIgnoreFile"} /\ query.stat # "dir") =>
        LET noDirOnly == SelectSeq(gitignoreRules, LAMBDA r : ~r.dirOnly) IN
        /\ query.result = ShouldIgnore(rootDir, gitignoreRules, query.path, query.stat)
        /\ query.result = ShouldIgnoreFile(rootDir, gitignoreRules, query.path)
        /\ query.result = ShouldIgnore(rootDir, noDirOnly, query.path, query.stat)
        /\ query.result = ShouldIgnoreFile(rootDir, noDirOnly, query.path)

\* a path that cannot be stat'ed and that a directory-only rule names is
\* not ignored by ShouldIgnore
C12_Witness ==
    /\ query.op = "ShouldIgnore"
    /\ query.stat = "missing"
    /\ \E i \in DOMAIN gitignoreRules :
        /\ gitignoreRules[i].dirOnly
        /\ ruleMatches(gitignoreRules[i], Rel(rootDir, query.path))
    /\ ~query.result


-----------------------------------------------------------------------------
(* Properties of the counter.                                              *)


\* the sum of f over a finite set
RECURSIVE SumOver(_, _)
SumOver(S, f) ==
    IF S = {} THEN 0
    ELSE LET x == CHOOSE y \in S : TRUE IN f[x] + SumOver(S \ {x}, f)

\* the paths of a sequence of FileStats
PathsOf(files) == {files[i].Path : i \in DOMAIN files}

\* no path occurs twice in a sequence of FileStats
DistinctPaths(files) ==
    \A i, j \in DOMAIN files : i # j => files[i].Path # files[j].Path

\* the totals are those of a set of files, each taken once
TotalsOfSet(paths) ==
    /\ cstats.TotalFiles = Cardinality(paths)
    /\ cstats.TotalLines = SumOver(paths, [p \in paths |-> Len(cfs[p])])
    /\ cstats.TotalSize = SumOver(paths, [p \in paths |-> FileSize(cfs[p])])

\* C13: within one CountProject pass a file reachable through several
\* source paths contributes exactly once to TotalFiles, TotalLines,
\* TotalSize and AllFiles.
C13_CountedOnce ==
    /\ cpc = "counted" =>
        /\ DistinctPaths(cstats.AllFiles)
        /\ TotalsOfSet(PathsOf(cstats.AllFiles))
    /\ cpc = "countedBase" =>
        /\ DistinctPaths(cstats.LargestFiles)
        /\ cstats.TotalFiles <= LargestLimit => TotalsOfSet(PathsOf(cstats.LargestFiles))


\* C14: after CountProject, LargestFiles is the prefix of AllFiles of
\* length min(5, len(AllFiles)) and AllFiles is sorted by line count in
\* non-increasing order.
C14_LargestIsSortedPrefix ==
    cpc = "counted" =>
        LET all == cstats.AllFiles
            top == cstats.LargestFiles
        IN  /\ Len(top) = (IF Len(all) < 5 THEN Len(all) ELSE 5)
            /\ \A i \in DOMAIN top : top[i] = all[i]
            /\ \A i, j \in DOMAIN all : i < j => all[i].Lines >= all[j].Lines

\* more than five files counted, a file with lines counted after one
\* without
C14_Witness ==
    /\ cpc = "counted"
    /\ Len(cstats.AllFiles) > 5
    /\ Len(cstats.LargestFiles) = 5
    /\ cstats.AllFiles[1].Lines > cstats.AllFiles[Len(cstats.AllFiles)].Lines
    /\ cfs[Join(R_root, F_main)] = EmptyFile

\* the nine runtime types of the source-extension table
KnownRuntimes ==
    { RuntimeGo, RuntimePython, RuntimeJavaScript, RuntimeTypeScript, RuntimeJava,
      RuntimeDotNet, RuntimeRust, RuntimeDart, RuntimeCpp }

\* C15: for a project whose runtime type is not one of the nine types of
\* the table, CountProject counts zero files, whatever its source paths are.
C15_UnknownRuntimeCountsNothing ==
    (cpc = "counted" /\ cproject.Type \notin KnownRuntimes) =>
        /\ cstats.TotalFiles = 0
        /\ cstats.AllFiles = << >>

\* C16: after CountProject the aggregates are the sums over the counted
\* files, TotalLines = BlankLines + CodeLines, and each file has
\* Lines = BlankLines + CodeLines, all zero for a zero-byte file.
C16_AggregatesAreSums ==
    cpc = "counted" =>
        LET all == cstats.AllFiles
            idx == DOMAIN all
        IN  /\ cstats.TotalFiles = Len(all)
            /\ cstats.TotalLines = SumOver(idx, [i \in idx |-> all[i].Lines])
            /\ cstats.BlankLines = SumOver(idx, [i \in idx |-> all[i].BlankLines])
            /\ cstats.CodeLines = SumOver(idx, [i \in idx |-> all[i].CodeLines])
            /\ cstats.TotalSize = SumOver(idx, [i \in idx |-> all[i].Size])
            /\ cstats.TotalLines = cstats.BlankLines + cstats.CodeLines
            /\ \A i \in idx :
                /\ all[i].Lines = all[i].BlankLines + all[i].CodeLines
                /\ all[i].Size = 0 =>
                       all[i].Lines = 0 /\ all[i].BlankLines = 0 /\ all[i].CodeLines = 0

\* a zero-byte file and a file with one blank and one code line counted
C16_Witness ==
    /\ cpc = "counted"
    /\ \E i, j \in DOMAIN cstats.AllFiles :
        /\ cstats.AllFiles[i].Size = 0
        /\ cstats.AllFiles[j].BlankLines = 1
        /\ cstats.AllFiles[j].CodeLines = 1
    /\ cstats.TotalLines > 0

\* C18: a source file with a line longer than the scanner's ceiling is
\* counted in full, or a failure is reported to the caller (here for the
\* files a source path names).
C18_LongLineNotDropped ==
    cpc = "counted" =>
        \/ CountProjectErr # "nil"
        \/ \A i \in DOMAIN cproject.SourcePaths :
            LET p == JoinPath(JoinPath(rootDir, cproject.Path), cproject.SourcePaths[i]) IN
            p \in DOMAIN cfs =>
                \E k \in DOMAIN cstats.AllFiles :
                    /\ cstats.AllFiles[k].Path = p
                    /\ cstats.AllFiles[k].Lines = Len(cfs[p])


\* the stats list has the shape of the project list, at every depth
RECURSIVE Mirrors(_, _)
Mirrors(stats, projs) ==
    /\ Len(stats) = Len(projs)
    /\ \A i \in DOMAIN stats :
        /\ stats[i].Project = projs[i]
        /\ Mirrors(stats[i].Children, projs[i].Children)

\* C17: CountHierarchy returns a stats tree with the shape of the project
\* tree: the i-th result refers to the i-th project and its Children mirror
\* that project's Children in order, at every depth; no project is dropped
\* because counting another one found nothing.
C17_StatsMirrorProjects ==
    cpc = "countedTree" => Mirrors(cresults, cforest)

\* a project in which nothing is counted, with a child in which a file is
C17_Witness ==
    /\ cpc = "countedTree"
    /\ Len(cresults) = 1
    /\ cresults[1].TotalFiles = 0
    /\ Len(cresults[1].Children) = 1
    /\ cresults[1].Children[1].TotalFiles > 0
    /\ Len(cresults[1].Children[1].Children) = 1


-----------------------------------------------------------------------------
(* Properties of the merge.                                                *)

\* whether a config override applies to a path
HasOverride(path) == ~mcfg.isNil /\ path \in DOMAIN mcfg.ProjectOverrides

\* the paths of a project list
PathsIn(ps) == {ps[i].Path : i \in DOMAIN ps}

\* no two projects of a list have the same path
UniquePaths(ps) == \A i, j \in DOMAIN ps : i # j => ps[i].Path # ps[j].Path

\* the merge of a discovered project d with the saved project e, as the
\* merge is specified
IsMergeOf(r, d, e) ==
    /\ r.Name = d.Name
    /\ r.Runtime = d.Runtime
    /\ r.ManifestFile = d.ManifestFile
    /\ r.SourcePaths = d.SourcePaths
    /\ r.Children = d.Children
    /\ r.ExcludePatterns = e.ExcludePatterns
    /\ r.SrcIgnorePaths =
           IF e.SrcIgnorePaths # << >> THEN e.SrcIgnorePaths ELSE d.SrcIgnorePaths

\* C19: for a discovered project whose path matches an existing project
\* (and no override applies to that path), the merged project has name,
\* runtime, manifest file, source paths and children of the discovered
\* project, the exclude patterns of the existing project, and its
\* srcIgnorePaths if that list is non-empty, otherwise the discovered one's.
C19_MergedFields ==
    gpc = "done" =>
        \A i \in DOMAIN mdiscovered :
            LET d == mdiscovered[i] IN
            (d.Path \in PathsIn(mexisting) /\ ~HasOverride(d.Path)) =>
                \E j \in DOMAIN mexisting :
                    /\ mexisting[j].Path = d.Path
                    /\ IsMergeOf(mresult[i], d, mexisting[j])


\* C20: MergeProjects loses no project: for lists that each have unique
\* paths the result holds exactly one project for every path of either
\* list, and an existing project without discovered counterpart and
\* without override is returned unchanged.
C20_NoProjectLost ==
    (gpc = "done" /\ UniquePaths(mdiscovered) /\ UniquePaths(mexisting)) =>
        /\ PathsIn(mresult) = PathsIn(mdiscovered) \cup PathsIn(mexisting)
        /\ UniquePaths(mresult)
        /\ \A j \in DOMAIN mexisting :
            (mexisting[j].Path \notin PathsIn(mdiscovered)
                    /\ ~HasOverride(mexisting[j].Path)) =>
                \E k \in DOMAIN mresult : mresult[k] = mexisting[j]

\* one project merged and one saved project with the user's edits kept
C20_Witness ==
    /\ gpc = "done"
    /\ UniquePaths(mdiscovered) /\ UniquePaths(mexisting)
    /\ Len(mdiscovered) = 1 /\ Len(mexisting) = 2
    /\ mdiscovered[1].Path \in PathsIn(mexisting)
    /\ Len(mresult) = 2
    /\ mresult[2] \in {mexisting[1], mexisting[2]}
    /\ mresult[2].ExcludePatterns # << >>


\* the projects that MergeProjects hands to applyConfigOverrides for place
\* k of its result: the discovered project k or its merge with a saved
\* project of its path, and after the discovered ones a saved project
BeforeOverride(k) ==
    IF k <= Len(mdiscovered)
    THEN {mdiscovered[k]} \cup
         {mergeProject(mexisting[j], mdiscovered[k]) :
             j \in {j \in DOMAIN mexisting : mexisting[j].Path = mdiscovered[k].Path}}
    ELSE {mexisting[j] : j \in DOMAIN mexisting}

\* the list an override leaves in a field
Overridden(overrideList, field) ==
    IF overrideList # << >> THEN overrideList ELSE field

\* C21: overrides replace and apply to every project of the merge result
\* (merged, newly discovered, retained): with an override for its path a
\* project's excludePatterns, srcIgnorePaths and sourcePaths are the
\* override's list where that is non-empty and unchanged where it is
\* empty; without an override, or with a nil config, the project is
\* unchanged.
C21_OverridesReplace ==
    gpc = "done" =>
        \A k \in DOMAIN mresult :
            \E p \in BeforeOverride(k) :
                IF HasOverride(p.Path)
                THEN LET o == mcfg.ProjectOverrides[p.Path] IN
                     mresult[k] =
                        [p EXCEPT
                           !.ExcludePatterns = Overridden(o.ExcludePatterns, @),
                           !.SrcIgnorePaths = Overridden(o.SrcIgnorePaths, @),
                           !.SourcePaths = Overridden(o.SourcePaths, @)]
                ELSE mresult[k] = p

\* a merged project whose kept exclude patterns are replaced by the
\* override while its src-ignore paths stay, and a retained project
\* without override that is left as it was
C21_Witness ==
    /\ gpc = "done"
    /\ Len(mdiscovered) = 1 /\ Len(mresult) = 2
    /\ \E j \in DOMAIN mexisting :
          /\ mexisting[j].Path = mdiscovered[1].Path
          /\ mexisting[j].ExcludePatterns = << P_tmp >>
    /\ HasOverride(mresult[1].Path)
    /\ mresult[1].ExcludePatterns = << P_over >>
    /\ mresult[1].SrcIgnorePaths # << >>
    /\ mresult[1].SrcIgnorePaths # << P_over >>
    /\ ~HasOverride(mresult[2].Path)
    /\ mresult[2].ExcludePatterns = << P_tmp >>


\* the directories of the walked tree for which ShouldIgnore returns true
IgnoredDirs ==
    {d \in WalkDirs(rootDir) : ShouldIgnore(rootDir, gitignoreRules, d, "dir")}

\* whether the relative path p is the directory d or lies below it
AtOrBelow(p, d) ==
    \/ d = rootDir
    \/ p = Rel(rootDir, d)
    \/ HasPrefix(p, Rel(rootDir, d) \o << Sep >>)

\* the files of the tree from which the registry detects a project
Detectable ==
    {f \in DOMAIN tree :
        /\ tree[f].readable
        /\ LET r == DetectProject(f, tree[f].content,
                                  Join(Dir(f), F_tsconfig) \in DOMAIN tree)
           IN  r.err = "nil" /\ r.project # {}}

\* C22: Discover never descends into an ignored directory: no returned
\* project has a path at or below a directory for which ShouldIgnore
\* returns true, even when that directory holds valid manifest files.
C22_NoProjectBelowIgnored ==
    wpc = "done" =>
        \A i \in DOMAIN discovered.projects.elems :
            \A d \in IgnoredDirs :
                ~AtOrBelow(discovered.projects.elems[i].Path, d)

\* a detectable manifest lies below a directory that a gitignore rule
\* prunes, another one lies in the root and is returned
C22_Witness ==
    /\ wpc = "done"
    /\ Join(rootDir, << "a" >>) \in IgnoredDirs
    /\ Join(Join(rootDir, << "a","/","b" >>), F_gomod) \in Detectable
    /\ Join(rootDir, F_gomod) \in Detectable
    /\ LenSlice(discovered.projects) = 1


\* the directories from the root down to the one that holds the file f
RECURSIVE DirsAbove(_)
DirsAbove(f) ==
    IF Dir(f) = rootDir \/ ~HasPrefix(Dir(f), rootDir) THEN {Dir(f)}
    ELSE {Dir(f)} \cup DirsAbove(Dir(f))

\* the files in the readable, non-ignored remainder of the tree
Remainder ==
    {f \in DOMAIN tree :
        /\ access.rootExists
        /\ DirsAbove(f) \cap (IgnoredDirs \cup access.denied) = {}
        /\ ~ShouldIgnoreFile(rootDir, gitignoreRules, f)}

\* C23: discovery is best-effort: an unreadable manifest, an inaccessible
\* directory or a failed detection is skipped and the walk goes on, so
\* Discover returns every detectable project of the readable, non-ignored
\* remainder of the tree, and no error.
C23_BestEffort ==
    wpc = "done" =>
        /\ discovered.err = "nil"
        /\ \A f \in Remainder \cap Detectable :
              \E i \in DOMAIN discovered.projects.elems :
                  /\ discovered.projects.elems[i].Path = Rel(rootDir, Dir(f))
                  /\ discovered.projects.elems[i].ManifestFile = Base(f)

\* the directory a cannot be read, a manifest of the root cannot be read
\* either, and the go.mod next to it is returned
C23_Witness ==
    /\ wpc = "done"
    /\ access.denied # {}
    /\ \E f \in DOMAIN tree : Dir(f) = rootDir /\ ~tree[f].readable
    /\ Join(rootDir, F_gomod) \in Remainder \cap Detectable
    /\ LenSlice(discovered.projects) = 1


\* C24: a scan whose root directory does not exist surfaces a failure:
\* NewWalker followed by Discover on a missing root returns a non-nil
\* error, so that "nothing found" and "could not scan" differ.
C24_MissingRootFails ==
    (wpc = "done" /\ ~access.rootExists) =>
        \/ NewWalkerErr(access) # "nil"
        \/ discovered.err # "nil"


\* C27: the matcher never prunes the scan root: whatever the base name of
\* an existing root and whatever its .gitignore holds, Discover examines
\* the entries directly inside the root, so that a manifest placed in the
\* root (and not itself ignored as a file) is detected.
C27_RootNotPruned ==
    (wpc = "done" /\ access.rootExists /\ rootDir \notin access.denied) =>
        \A f \in Detectable :
            (Dir(f) = rootDir /\ ~ShouldIgnoreFile(rootDir, gitignoreRules, f)) =>
                \E i \in DOMAIN discovered.projects.elems :
                    /\ discovered.projects.elems[i].Path = DotPath
                    /\ discovered.projects.elems[i].ManifestFile = Base(f)


\* C29: MergeProjects is deterministic: two calls with equal discovered
\* list, existing list and config return the same projects in the same
\* order, the existing projects that were not re-discovered included.
C29_MergeDeterministic ==
    gpc = "done" =>
        \A keys \in KeyOrders(RetainedKeys(mdiscovered, mexisting, mcfg)) :
            MergeProjects(mdiscovered, mexisting, mcfg, keys) = mresult


\* the files counted somewhere in a stats tree
RECURSIVE FilesCounted(_)
FilesCounted(stats) ==
    UNION {PathsOf(stats[i].AllFiles) \cup FilesCounted(stats[i].Children) :
              i \in DOMAIN stats}

\* C26: the grand totals over a ProjectStats tree (Reporter.calculateTotals
\* and calculateTotals of the stats command) count each physical file at
\* most once, also when a child project's directory lies inside a source
\* path of its parent and both count the same extensions.
C26_TotalsCountOnce ==
    LET files == FilesCounted(cresults)
        lines == SumOver(files, [p \in files |-> Len(cfs[p])])
        size  == SumOver(files, [p \in files |-> FileSize(cfs[p])])
    IN  /\ cpc = "totalled" =>
            /\ ctotals.TotalFiles <= Cardinality(files)
            /\ ctotals.TotalLines <= lines
            /\ ctotals.TotalSize <= size
        /\ cpc = "totalledCli" =>
            /\ ctotals.Files <= Cardinality(files)
            /\ ctotals.TotalLines <= lines
            /\ ctotals.SizeBytes <= size


-----------------------------------------------------------------------------
(* Properties of the self-update.                                          *)

\* C25: downloadAndInstall removes the temporary download file on every
\* error return: after any failure no repo-ctr-update-* file is left next
\* to the executable.
C25_TempFileRemoved ==
    (upc = "returned" /\ uerr # "nil") => ~utmpOnDisk

=============================================================================
